---- MODULE Spec2Model ----
(***************************************************************************)
(* Model of reminder-cli: the Reminder entity (src/src/reminder.rs), the   *)
(* file-backed Storage with advisory locks (src/src/storage.rs), the       *)
(* daemon poll loop (src/src/daemon.rs) and the command handlers           *)
(* (src/src/main.rs).                                                      *)
(*                                                                         *)
(* Time is an integer clock.  Option<T> is a set with at most one element: *)
(* None is {} and Some(t) is {t}.  A Vec<Reminder> is a sequence.          *)
(***************************************************************************)
EXTENDS Integers, Sequences, FiniteSets, TLC

VARIABLES
    now,                \* Local::now()
    file,               \* reminders.json: [kind, data]
    excl,               \* holder of the exclusive flock, or "none"
    shared,             \* holders of the shared flock
    dpc,                \* daemon: position in run_daemon_loop
    reminders,          \* daemon: `reminders` of the current cycle
    updated,            \* daemon: `updated` of the current cycle
    dcycle,             \* daemon: what the current cycle has observed and done
    cmd,                \* command process: the command line being run
    cpc,                \* command process: position in its handler
    cmem,               \* command process: the Vec it loaded and mutates
    cobs,               \* command process: what it has observed and returned
    nAdds,              \* number of reminders constructed so far
    nCmds,              \* number of commands run so far
    fired,              \* ids of one-time reminders whose dispatch was saved
    ent,                \* entity under test (SpecEntity)
    entPrev,            \* entity before the last operation
    entOps,             \* the last two operations applied to ent, and when
    entRes,             \* the value the last is_due() returned
    store,              \* collection under test (SpecStore): the persisted Vec
    storePrev,          \* the persisted Vec before the last command
    stCmd,              \* the last command run on store
    stRet,              \* what the last command returned
    hpc,                \* heartbeat view of the daemon: position in the loop
    heartbeat_counter,  \* run_daemon_loop: heartbeat_counter
    hbAge,              \* seconds since the heartbeat file was last written
    hbInfo,             \* cycles since write_heartbeat(), last outcome, ...
    prIn,               \* normalizer under test (SpecParse): the input text
    prOut               \* normalizer under test: what it returned

mainVars == <<file, excl, shared, dpc, reminders, updated, dcycle, cmd, cpc, cmem, cobs, nAdds, nCmds, fired>>
entVars == <<ent, entPrev, entOps, entRes>>
stVars == <<store, storePrev, stCmd, stRet>>
hbVars == <<hpc, heartbeat_counter, hbAge, hbInfo>>
prVars == <<prIn, prOut>>
vars == <<now, mainVars, entVars, stVars, hbVars, prVars>>

---------------------------------------------------------------------------
(* Bounds *)

MaxTime == 1
MaxCmds == 2
MaxWorkSecs == 1
MaxCycles == 8

---------------------------------------------------------------------------
(* Reminder entity: src/src/reminder.rs *)

None == {}
Some(t) == {t}

OneTime(t) == [kind |-> "OneTime", at |-> t]
Cron(e) == [kind |-> "Cron", expr |-> e]

\* Recurrence rules.  "*" fires at every instant, "*/2" at every even instant,
\* "@1" only at instant 1 (a rule limited to a past year); "garbage" is not a
\* cron rule.
ValidCron == {"*", "*/2", "@1"}
CronExprs == ValidCron \cup {"garbage"}

\* Schedule::from_str(expr).is_ok()
ScheduleFromStrOk(expr) == expr \in ValidCron

Occurs(expr, t) ==
    CASE expr = "*" -> TRUE
      [] expr = "*/2" -> t % 2 = 0
      [] expr = "@1" -> t = 1
      [] OTHER -> FALSE

\* mutant: the occurrence at `t` itself counts as upcoming
UpcomingNextInclusive(expr, t) ==
    LET cand == {u \in t..(t + 2) : Occurs(expr, u)}
    IN IF cand = {} THEN None
       ELSE Some(CHOOSE u \in cand : \A w \in cand : u <= w)

\* schedule.upcoming(Local).next(): the first occurrence after `t`, if any
UpcomingNext(expr, t) ==
    LET cand == {u \in (t + 1)..(t + 2) : Occurs(expr, u)}
    IN IF cand = {} THEN None
       ELSE Some(CHOOSE u \in cand : \A w \in cand : u <= w)

Reminder(id, title, schedule, next_trigger, completed, paused) ==
    [id |-> id, title |-> title, schedule |-> schedule,
     next_trigger |-> next_trigger, completed |-> completed, paused |-> paused]

new_one_time(id, title, time) ==
    Reminder(id, title, OneTime(time), Some(time), FALSE, FALSE)

\* defined only when Schedule::from_str(cron_expr) succeeds
new_cron(id, title, cron_expr, t) ==
    Reminder(id, title, Cron(cron_expr), UpcomingNext(cron_expr, t), FALSE, FALSE)

\* mutant: a fired one-time reminder keeps its next_trigger
calculate_next_trigger_keeps(r, t) ==
    IF r.schedule.kind = "OneTime"
    THEN [r EXCEPT !.completed = TRUE]
    ELSE IF ScheduleFromStrOk(r.schedule.expr)
         THEN [r EXCEPT !.next_trigger = UpcomingNext(r.schedule.expr, t)]
         ELSE r

calculate_next_trigger(r, t) ==
    IF r.schedule.kind = "OneTime"
    THEN [r EXCEPT !.completed = TRUE, !.next_trigger = None]
    ELSE IF ScheduleFromStrOk(r.schedule.expr)
         THEN [r EXCEPT !.next_trigger = UpcomingNext(r.schedule.expr, t)]
         ELSE r

\* mutant: not due at the exact instant
is_due_strictly_after(r, t) ==
    IF r.completed \/ r.paused
    THEN FALSE
    ELSE IF r.next_trigger # None
         THEN \E next \in r.next_trigger : t > next
         ELSE FALSE

is_due(r, t) ==
    IF r.completed \/ r.paused
    THEN FALSE
    ELSE IF r.next_trigger # None
         THEN \E next \in r.next_trigger : t >= next
         ELSE FALSE

\* mutant: pausing forgets the next trigger
pause_clears_trigger(r) == [r EXCEPT !.paused = TRUE, !.next_trigger = None]

pause(r) == [r EXCEPT !.paused = TRUE]

\* mutant: resuming a one-time reminder drops its next trigger
resume_drops_one_time(r, t) ==
    LET r1 == [r EXCEPT !.paused = FALSE]
    IN IF r1.schedule.kind = "Cron" /\ ScheduleFromStrOk(r1.schedule.expr)
       THEN [r1 EXCEPT !.next_trigger = UpcomingNext(r1.schedule.expr, t)]
       ELSE IF r1.schedule.kind = "OneTime"
            THEN [r1 EXCEPT !.next_trigger = None]
            ELSE r1

\* mutant: resuming does not recompute the next trigger
resume_keeps(r, t) == [r EXCEPT !.paused = FALSE]

resume(r, t) ==
    LET r1 == [r EXCEPT !.paused = FALSE]
    IN IF r1.schedule.kind = "Cron" /\ ScheduleFromStrOk(r1.schedule.expr)
       THEN [r1 EXCEPT !.next_trigger = UpcomingNext(r1.schedule.expr, t)]
       ELSE r1

---------------------------------------------------------------------------
(* Storage: src/src/storage.rs.  The snapshot file is "missing", "empty"   *)
(* (zero bytes), "json" (a serialized Vec<Reminder>), "partial" (a prefix  *)
(* of a serialization, which serde_json rejects) or "blank" (whitespace    *)
(* only).                                                                  *)

Procs == {"daemon", "cli"}

MissingFile == [kind |-> "missing", data |-> <<>>]
EmptyFile == [kind |-> "empty", data |-> <<>>]
PartialFile == [kind |-> "partial", data |-> <<>>]
BlankFile == [kind |-> "blank", data |-> <<>>]
JsonFile(v) == [kind |-> "json", data |-> v]

Ok(v) == [ok |-> TRUE, v |-> v]
Err == [ok |-> FALSE, v |-> <<>>]

\* load(), the early return: the path does not exist
LoadMissing(f) == f.kind = "missing"

\* lock_shared() returns once no other process holds the exclusive lock
CanLockShared(p) == excl = "none"

\* mutant: the content is tested with is_empty(), without trim()
LoadContentNoTrim(f) ==
    IF f.kind \in {"missing", "empty"} THEN Ok(<<>>)
    ELSE IF f.kind = "json" THEN Ok(f.data)
    ELSE Err

\* load(), from read_to_string on: empty content is an empty collection,
\* anything else goes through serde_json::from_str
LoadContent(f) ==
    IF f.kind \in {"missing", "empty", "blank"} THEN Ok(<<>>)
    ELSE IF f.kind = "json" THEN Ok(f.data)
    ELSE Err

\* save(): OpenOptions::new().write(true).create(true).truncate(true).open()
\* creates or truncates the file before any lock is requested
SaveOpenTruncate(f) == EmptyFile

\* lock_exclusive() returns once no other process holds any lock
CanLockExclusive(p) == excl = "none" /\ shared \ {p} = {}

\* save(): to_string_pretty + write_all
SaveWriteAll(v) == JsonFile(v)

\* what a failed write_all may leave behind
FailedWrite == {EmptyFile, PartialFile}

---------------------------------------------------------------------------
(* Daemon loop: src/src/daemon.rs *)

NoCycle == [loaded |-> <<>>, at |-> 0, fails |-> {}, sent |-> <<>>,
            err |-> "none", wrote |-> FALSE, old |-> FALSE, conc |-> FALSE]

\* mutant: a reminder whose notification failed is not rescheduled
TriggerReminderSkipOnError(r, sendOk, t) ==
    IF sendOk THEN calculate_next_trigger(r, t) ELSE r

\* mutant: rescheduling a recurring reminder turns its schedule into the
\* one-time schedule of the next occurrence
TriggerReminderRewritesSchedule(r, sendOk, t) ==
    LET n == calculate_next_trigger(r, t)
    IN IF n.next_trigger = None THEN n
       ELSE [n EXCEPT !.schedule = OneTime(CHOOSE x \in n.next_trigger : TRUE)]

\* the body of `if reminder.is_due()`: the notifier's result is logged when
\* it is an error, and the reminder is rescheduled in both cases
TriggerReminder(r, sendOk, t) == calculate_next_trigger(r, t)

\* the `for reminder in reminders.iter_mut()` loop from index i on; `fails`
\* are the indices at which send_notification returns Err
RECURSIVE ForEachReminder(_, _, _, _, _)
ForEachReminder(rems, i, t, fails, acc) ==
    IF i > Len(rems) THEN acc
    ELSE IF is_due(rems[i], t)
         THEN ForEachReminder(rems, i + 1, t, fails,
                [rems |-> Append(acc.rems, TriggerReminder(rems[i], i \notin fails, t)),
                 sent |-> Append(acc.sent, [id |-> rems[i].id, ok |-> i \notin fails]),
                 updated |-> TRUE])
         ELSE ForEachReminder(rems, i + 1, t, fails,
                [acc EXCEPT !.rems = Append(acc.rems, rems[i])])

\* mutant: `updated` starts out true, so every cycle saves
RunCycleAlwaysSaves(rems, t, fails) ==
    ForEachReminder(rems, 1, t, fails,
                    [rems |-> <<>>, sent |-> <<>>, updated |-> TRUE])

RunCycle(rems, t, fails) ==
    ForEachReminder(rems, 1, t, fails,
                    [rems |-> <<>>, sent |-> <<>>, updated |-> FALSE])

DueIndices(rems, t) == {i \in 1..Len(rems) : is_due(rems[i], t)}

\* mutant: the load error is propagated out of run_daemon_loop
OnLoadErrorPropagate == "exited"

\* Err(e) arm of `match storage.load()`: logged, the loop goes on
OnLoadError == "sleep"

\* `if let Err(e) = storage.save(&reminders)`: logged, the loop goes on
OnSaveError == "sleep"

\* some other process has truncated the snapshot and not yet rewritten it,
\* replacing a non-empty collection by a non-empty one
CliMidSave == cpc \in {"save_lock", "save_write"} /\ cobs.old /\ Len(cmem) > 0
DaemonMidSave == dpc \in {"save_lock", "save_write"} /\ dcycle.old /\ Len(reminders) > 0

cliVars == <<cmd, cpc, cmem, cobs, nAdds, nCmds>>

DLoadOpen ==
    /\ dpc = "load"
    /\ \/ /\ LoadMissing(file)
          /\ reminders' = <<>>
          /\ dcycle' = [dcycle EXCEPT !.loaded = <<>>]
          /\ dpc' = "process"
          /\ UNCHANGED shared
       \/ /\ ~LoadMissing(file)
          /\ CanLockShared("daemon")
          /\ shared' = shared \cup {"daemon"}
          /\ dpc' = "read"
          /\ UNCHANGED <<reminders, dcycle>>
       \/ /\ ~LoadMissing(file)          \* File::open or lock_shared fails
          /\ dcycle' = [dcycle EXCEPT !.err = "load"]
          /\ dpc' = OnLoadError
          /\ UNCHANGED <<reminders, shared>>
    /\ UNCHANGED <<now, file, excl, updated, fired, cliVars, entVars, stVars, hbVars, prVars>>

DLoadRead ==
    /\ dpc = "read"
    /\ shared' = shared \ {"daemon"}
    /\ LET res == LoadContent(file)
       IN IF res.ok
          THEN /\ reminders' = res.v
               /\ dcycle' = [dcycle EXCEPT !.loaded = res.v, !.conc = CliMidSave]
               /\ dpc' = "process"
          ELSE /\ reminders' = <<>>
               /\ dcycle' = [dcycle EXCEPT !.err = "load", !.conc = CliMidSave]
               /\ dpc' = OnLoadError
    /\ UNCHANGED <<now, file, excl, updated, fired, cliVars, entVars, stVars, hbVars, prVars>>

DProcess ==
    /\ dpc = "process"
    /\ \E fails \in SUBSET DueIndices(reminders, now) :
         LET out == RunCycle(reminders, now, fails)
         IN /\ reminders' = out.rems
            /\ updated' = out.updated
            /\ dcycle' = [dcycle EXCEPT !.at = now, !.fails = fails, !.sent = out.sent]
            /\ dpc' = IF out.updated THEN "save_open" ELSE "sleep"
    /\ UNCHANGED <<now, file, excl, shared, fired, cliVars, entVars, stVars, hbVars, prVars>>

DSaveOpen ==
    /\ dpc = "save_open"
    /\ \/ /\ file' = SaveOpenTruncate(file)
          /\ dcycle' = [dcycle EXCEPT !.wrote = TRUE, !.old = Len(file.data) > 0,
                                      !.fails = {}, !.sent = <<>>]
          /\ dpc' = "save_lock"
       \/ /\ dcycle' = [dcycle EXCEPT !.err = "save"]     \* open fails
          /\ dpc' = OnSaveError
          /\ UNCHANGED file
    /\ UNCHANGED <<now, excl, shared, reminders, updated, fired, cliVars, entVars, stVars, hbVars, prVars>>

DSaveLock ==
    /\ dpc = "save_lock"
    /\ CanLockExclusive("daemon")
    /\ excl' = "daemon"
    /\ dpc' = "save_write"
    /\ UNCHANGED <<now, file, shared, reminders, updated, dcycle, fired, cliVars,
                   entVars, stVars, hbVars, prVars>>

\* ids of the one-time reminders this cycle dispatched
DispatchedOneTime ==
    {dcycle.loaded[i].id : i \in {j \in DueIndices(dcycle.loaded, dcycle.at) :
                                    dcycle.loaded[j].schedule.kind = "OneTime"}}

DSaveWrite ==
    /\ dpc = "save_write"
    /\ excl' = "none"
    /\ \/ /\ file' = SaveWriteAll(reminders)
          /\ fired' = fired \cup DispatchedOneTime
          /\ dpc' = "sleep"
          /\ UNCHANGED dcycle
       \/ /\ file' \in FailedWrite                         \* write_all fails
          /\ dcycle' = [dcycle EXCEPT !.err = "save"]
          /\ dpc' = OnSaveError
          /\ UNCHANGED fired
    /\ UNCHANGED <<now, shared, reminders, updated, cliVars, entVars, stVars, hbVars, prVars>>

\* the end of the iteration: thread::sleep returns and the next one starts.
\* The heartbeat counter of the loop's tail does not read or write the store.
DSleep ==
    /\ dpc = "sleep"
    /\ dpc' = "load"
    /\ reminders' = <<>>
    /\ updated' = FALSE
    /\ dcycle' = NoCycle
    /\ UNCHANGED <<now, file, excl, shared, fired, cliVars, entVars, stVars, hbVars, prVars>>

Tick ==
    /\ now < MaxTime
    /\ now' = now + 1
    /\ UNCHANGED <<mainVars, entVars, stVars, hbVars, prVars>>

---------------------------------------------------------------------------
(* parse_time: src/src/time_parser.rs.  A text is the sequence of its      *)
(* maximal runs of digits ("d"), letters ("l") and whitespace ("w"), and   *)
(* of its other characters ("p").  Instants are minutes; day 0 is Monday   *)
(* 2024-12-23, so that day 9 is Wednesday 2025-01-01; the local time zone  *)
(* has a fixed offset.                                                     *)

Digits(d) == [k |-> "d", s |-> "", d |-> d]
Letters(s) == [k |-> "l", s |-> s, d |-> <<>>]
Space(s) == [k |-> "w", s |-> s, d |-> <<>>]
Punct(s) == [k |-> "p", s |-> s, d |-> <<>>]

TimeOk(m) == [ok |-> TRUE, v |-> m, err |-> "none"]
TimeErr == [ok |-> FALSE, v |-> 0, err |-> "invalid"]
\* Duration::minutes/hours/days/weeks and `Local::now() + duration` panic
\* when the result is out of chrono's range
TimePanic == [ok |-> FALSE, v |-> 0, err |-> "panic"]

MinutesPerDay == 1440

\* str::parse of a digit run: its decimal value
Val(d) ==
    LET v[i \in 0..Len(d)] == IF i = 0 THEN 0 ELSE 10 * v[i - 1] + d[i]
    IN v[Len(d)]

\* the digit run without its leading zeros
StripZeros(d) ==
    LET nz == {i \in DOMAIN d : d[i] # 0}
    IN IF nz = {} THEN <<>>
       ELSE SubSeq(d, CHOOSE i \in nz : \A j \in nz : i <= j, Len(d))

\* str::trim
trim(s) ==
    LET nw == {i \in DOMAIN s : s[i].k # "w"}
    IN IF nw = {} THEN <<>>
       ELSE SubSeq(s, CHOOSE i \in nw : \A j \in nw : i <= j,
                   CHOOSE i \in nw : \A j \in nw : j <= i)

\* str::to_lowercase, on the words that occur in the inputs
to_lowercase(s) ==
    LET lower(w) == CASE w = "M" -> "m"
                      [] w = "Monday" -> "monday"
                      [] w = "TODAY" -> "today"
                      [] w = "PM" -> "pm"
                      [] OTHER -> w
    IN [i \in DOMAIN s |-> IF s[i].k = "l" THEN Letters(lower(s[i].s)) ELSE s[i]]

\* parse_absolute(): NaiveDateTime::parse_from_str(input, "%Y-%m-%d %H:%M").
\* 2025-01-dd is day dd + 8; other months are outside the calendar of the
\* model.
parse_absolute(s) ==
    IF /\ Len(s) = 9
       /\ \A i \in {1, 3, 5, 7, 9} : s[i].k = "d"
       /\ s[2] = Punct("-") /\ s[4] = Punct("-")
       /\ s[6].k = "w"
       /\ s[8] = Punct(":")
       /\ Len(s[1].d) = 4 /\ Val(s[1].d) = 2025
       /\ Len(s[3].d) \in 1..2 /\ Val(s[3].d) = 1
       /\ Len(s[5].d) \in 1..2 /\ Val(s[5].d) \in 1..31
       /\ Len(s[7].d) \in 1..2 /\ Val(s[7].d) < 24
       /\ Len(s[9].d) \in 1..2 /\ Val(s[9].d) < 60
    THEN TimeOk((Val(s[5].d) + 8) * MinutesPerDay
                + Val(s[7].d) * 60 + Val(s[9].d))
    ELSE TimeErr

\* the units of the regular expression of parse_relative, in minutes
UnitMinutes(u) ==
    CASE u \in {"m", "min", "mins", "minute", "minutes"} -> 1
      [] u \in {"h", "hr", "hrs", "hour", "hours"} -> 60
      [] u \in {"d", "day", "days"} -> MinutesPerDay
      [] u \in {"w", "week", "weeks"} -> 7 * MinutesPerDay
      [] OTHER -> 0

\* parse_relative(): ^(\d+)\s*(m|min|...|weeks)$, caps[1].parse::<i64>()?,
\* Local::now() + duration.  An amount of up to 5 digits is within chrono's
\* range in every unit, one of 13 digits or more in none; an i64 holds every
\* amount of up to 18 significant digits and none of 20 or more.
parse_relative(s, t) ==
    IF /\ \/ Len(s) = 2
          \/ Len(s) = 3 /\ s[2].k = "w"
       /\ s[1].k = "d"
       /\ s[Len(s)].k = "l"
       /\ UnitMinutes(s[Len(s)].s) # 0
    THEN LET amount == StripZeros(s[1].d)
         IN CASE Len(amount) <= 5 ->
                    TimeOk(t + Val(amount) * UnitMinutes(s[Len(s)].s))
              [] Len(amount) >= 13 /\ Len(amount) <= 18 ->
                    TimePanic
              [] Len(amount) >= 20 -> TimeErr
    ELSE TimeErr

\* parse_weekday(): num_days_from_monday of the named day
parse_weekday(s) ==
    IF Len(s) # 1 \/ s[1].k # "l" THEN TimeErr
    ELSE CASE s[1].s \in {"monday", "mon"} -> TimeOk(0)
           [] s[1].s \in {"tuesday", "tue", "tues"} -> TimeOk(1)
           [] s[1].s \in {"wednesday", "wed"} -> TimeOk(2)
           [] s[1].s \in {"thursday", "thu", "thur", "thurs"} -> TimeOk(3)
           [] s[1].s \in {"friday", "fri"} -> TimeOk(4)
           [] s[1].s \in {"saturday", "sat"} -> TimeOk(5)
           [] s[1].s \in {"sunday", "sun"} -> TimeOk(6)
           [] OTHER -> TimeErr

\* NaiveDate::weekday().num_days_from_monday()
WeekdayOf(date) == date % 7

next_weekday(from, target) ==
    LET days_ahead == (target - WeekdayOf(from) + 7) % 7
    IN from + (IF days_ahead = 0 THEN 7 ELSE days_ahead)

this_weekday(from, target) ==
    LET days_ahead == (target - WeekdayOf(from) + 7) % 7
    IN from + days_ahead

\* input.rfind(char::is_whitespace): the last run of whitespace, 0 if none
RFindWhitespace(s) ==
    LET ws == {i \in DOMAIN s : s[i].k = "w"}
    IN IF ws = {} THEN 0 ELSE CHOOSE i \in ws : \A j \in ws : j <= i

\* s.starts_with("next ") / s.starts_with("this ")
StartsWithWord(s, w) ==
    Len(s) >= 2 /\ s[1] = Letters(w) /\ s[2].k = "w"

\* &s[5..]: what follows the word and one space
AfterWord(s) ==
    IF s[2] = Space(" ") THEN SubSeq(s, 3, Len(s)) ELSE SubSeq(s, 2, Len(s))

\* time_re.captures(time_part): (\d{1,2})(?::(\d{2}))?\s*(am|pm)?$, as
\* [ok, hour, minute, ampm]; (\d{1,2}) matches the last one or two digits
\* of a run
TimeReCaptures(p) ==
    LET LastTwo(d) == IF Len(d) <= 2 THEN d ELSE SubSeq(d, Len(d) - 1, Len(d))
        n == Len(p)
        ampm == IF n >= 1 /\ p[n].k = "l" /\ p[n].s \in {"am", "pm"}
                THEN p[n].s ELSE "none"
        m == IF ampm = "none" THEN n ELSE n - 1
    IN IF m >= 3 /\ p[m].k = "d" /\ Len(p[m].d) = 2 /\ p[m - 1] = Punct(":")
          /\ p[m - 2].k = "d"
       THEN [ok |-> TRUE, hour |-> Val(LastTwo(p[m - 2].d)),
             minute |-> Val(p[m].d), ampm |-> ampm]
       ELSE IF m >= 1 /\ p[m].k = "d"
       THEN [ok |-> TRUE, hour |-> Val(LastTwo(p[m].d)), minute |-> 0,
             ampm |-> ampm]
       ELSE [ok |-> FALSE, hour |-> 0, minute |-> 0, ampm |-> ampm]

\* NaiveTime::from_hms_opt(hour, minute, 0), in minutes of the day
from_hms_opt(hour, minute) ==
    IF hour < 24 /\ minute < 60 THEN TimeOk(hour * 60 + minute) ELSE TimeErr

\* parse_natural(), the arms of `match date_part` that name a weekday:
\* next_weekday for "next <day>" and a bare day, this_weekday for
\* "this <day>"
OnWeekday(weekday, today, this) ==
    IF ~weekday.ok THEN TimeErr
    ELSE IF this THEN TimeOk(this_weekday(today, weekday.v))
    ELSE TimeOk(next_weekday(today, weekday.v))

\* parse_natural(), `match date_part`
target_date(date_part, today) ==
    IF date_part = <<Letters("today")>> THEN TimeOk(today)
    ELSE IF date_part = <<Letters("tomorrow")>> THEN TimeOk(today + 1)
    ELSE IF date_part = <<Letters("yesterday")>> THEN TimeOk(today - 1)
    ELSE OnWeekday(parse_weekday(IF \/ StartsWithWord(date_part, "next")
                                    \/ StartsWithWord(date_part, "this")
                                 THEN AfterWord(date_part) ELSE date_part),
                   today, StartsWithWord(date_part, "this"))

\* mutant: pm adds 12 to every hour, 12 included
CapturedTimePmAlways(caps) ==
    IF ~caps.ok THEN TimeErr
    ELSE from_hms_opt(IF caps.ampm = "am" /\ caps.hour = 12 THEN 0
                      ELSE IF caps.ampm = "pm" THEN caps.hour + 12
                      ELSE caps.hour,
                      caps.minute)

\* parse_natural(), the captured time: 12am is 0, pm adds 12 to any hour
\* but 12; NaiveTime::from_hms_opt(hour, minute, 0)
CapturedTime(caps) ==
    IF ~caps.ok THEN TimeErr
    ELSE from_hms_opt(IF caps.ampm = "am" /\ caps.hour = 12 THEN 0
                      ELSE IF caps.ampm = "pm" /\ caps.hour # 12
                      THEN caps.hour + 12
                      ELSE caps.hour,
                      caps.minute)

\* parse_natural(), the time part: 9:00 when there is none
target_time(time_part) ==
    IF time_part = <<>> THEN from_hms_opt(9, 0)
    ELSE CapturedTime(TimeReCaptures(time_part))

\* parse_natural(): date and time put together
AndTime(date, time) ==
    IF date.ok /\ time.ok THEN TimeOk(date.v * MinutesPerDay + time.v)
    ELSE TimeErr

\* the text before (after) its pos-th run, trimmed; the whole text (the
\* empty text) when pos is 0
SplitAt(s, pos, before) ==
    IF pos = 0 THEN (IF before THEN s ELSE <<>>)
    ELSE IF before THEN trim(SubSeq(s, 1, pos - 1))
    ELSE trim(SubSeq(s, pos, Len(s)))

\* parse_natural(): the text is split at its last whitespace into a date
\* part and a time part
parse_natural(s, t) ==
    AndTime(target_date(SplitAt(s, RFindWhitespace(s), TRUE), t \div MinutesPerDay),
            target_time(SplitAt(s, RFindWhitespace(s), FALSE)))

\* parse_time(): the first of the three results that is not the error of a
\* format that does not match
FirstMatch(absolute, relative, natural) ==
    IF absolute.ok THEN absolute
    ELSE IF relative.err # "invalid" THEN relative
    ELSE IF natural.ok THEN natural
    ELSE TimeErr

ParseLowered(s, t) ==
    FirstMatch(parse_absolute(s), parse_relative(s, t), parse_natural(s, t))

\* parse_time(): trim, to_lowercase, then the three formats in order
parse_time(input, t) == ParseLowered(to_lowercase(trim(input)), t)

\* the characters of the time arguments the command handlers are run with
Text(x) ==
    CASE x = "0m" -> <<Digits(<<0>>), Letters("m")>>
      [] x = "1m" -> <<Digits(<<1>>), Letters("m")>>
      [] x = "soon" -> <<Letters("soon")>>

---------------------------------------------------------------------------
(* Input normalizers as the command handlers use them:                     *)
(* src/src/time_parser.rs, src/src/cron_parser.rs                          *)

\* english_to_cron::str_cron_syntax; "every 0 minutes" stands for a phrase
\* whose translation the cron validator rejects
EnglishToCron(input) ==
    CASE input = "every 2 minutes" -> Ok("*/2")
      [] input = "every 0 minutes" -> Ok("*/0")
      [] OTHER -> Err

\* str::trim on the cron arguments that carry surrounding whitespace
CronTrim(input) ==
    CASE input = " * " -> "*"
      [] input = " */2" -> "*/2"
      [] input = "every 2 minutes " -> "every 2 minutes"
      [] input = " garbage " -> "garbage"
      [] OTHER -> input

CronOk(v, via) == [ok |-> TRUE, v |-> v, err |-> "none", via |-> via]
CronErr(err) == [ok |-> FALSE, v |-> "", err |-> err, via |-> "none"]

\* mutant: the input is validated without trim()
parse_cron_no_trim(input) ==
    IF ScheduleFromStrOk(input) THEN CronOk(input, "cron")
    ELSE LET e == EnglishToCron(CronTrim(input))
         IN IF e.ok
            THEN IF ScheduleFromStrOk(e.v) THEN CronOk(e.v, "english")
                 ELSE CronErr("generated_invalid")
            ELSE CronErr("invalid")

\* mutant: the translation is returned without the second validation
parse_cron_unchecked(input) ==
    LET s == CronTrim(input)
    IN IF ScheduleFromStrOk(s) THEN CronOk(s, "cron")
       ELSE LET e == EnglishToCron(s)
            IN IF e.ok THEN CronOk(e.v, "english") ELSE CronErr("invalid")

\* parse_cron(): trim, the cron validator, then the translator and the
\* validator again; "generated_invalid" is `Generated invalid cron
\* expression from ...`, "invalid" is `Invalid cron expression: ...`
parse_cron(input) ==
    LET s == CronTrim(input)
    IN IF ScheduleFromStrOk(s) THEN CronOk(s, "cron")
       ELSE LET e == EnglishToCron(s)
            IN IF e.ok
               THEN IF ScheduleFromStrOk(e.v) THEN CronOk(e.v, "english")
                    ELSE CronErr("generated_invalid")
               ELSE CronErr("invalid")

---------------------------------------------------------------------------
(* Storage operations on a loaded Vec<Reminder>: src/src/storage.rs        *)

\* Uuid::new_v4(): the n-th identifier ever generated, as a two-digit string
NewId(n) == <<(n \div 2) + 1, (n % 2) + 1>>

\* r.id.to_string().starts_with(short_id)
StartsWith(id, short_id) ==
    Len(short_id) <= Len(id) /\ SubSeq(id, 1, Len(short_id)) = short_id

\* the records of a Vec, as a set
Range(v) == {v[i] : i \in 1..Len(v)}

\* mutant: the scan stops at the first record with the prefix
MatchesFirstOnly(v, short_id) ==
    LET m(r) == StartsWith(r.id, short_id)
        all == SelectSeq(v, m)
    IN IF all = <<>> THEN <<>> ELSE <<Head(all)>>

Matches(v, short_id) == LET m(r) == StartsWith(r.id, short_id) IN SelectSeq(v, m)

Ids(v) == {r.id : r \in Range(v)}

\* a handler's outcome: the Vec to save (when save is TRUE) and its result
Outcome(mem, save, res) == [mem |-> mem, save |-> save, res |-> res]

storage_add(v, r) == Outcome(Append(v, r), TRUE, "ok")

delete_by_short_id(v, short_id) ==
    LET matches == Matches(v, short_id)
    IN IF Len(matches) = 0 THEN Outcome(v, FALSE, "notfound")
       ELSE IF Len(matches) = 1
            THEN LET keep(r) == r.id # matches[1].id
                 IN [mem |-> SelectSeq(v, keep), save |-> TRUE, res |-> "ok",
                     id |-> matches[1].id]
            ELSE [mem |-> v, save |-> FALSE, res |-> "ambiguous",
                  count |-> Len(matches)]

\* mutant: of several matches the first is returned
find_by_short_id_first(v, short_id) ==
    LET matches == Matches(v, short_id)
    IN IF Len(matches) = 0 THEN [res |-> "notfound", id |-> <<>>, count |-> 0]
       ELSE [res |-> "ok", id |-> matches[1].id, count |-> 1]

\* find_by_short_id: the matching record, None, or the ambiguity error
find_by_short_id(v, short_id) ==
    LET matches == Matches(v, short_id)
    IN IF Len(matches) = 0 THEN [res |-> "notfound", id |-> <<>>, count |-> 0]
       ELSE IF Len(matches) = 1 THEN [res |-> "ok", id |-> matches[1].id, count |-> 1]
            ELSE [res |-> "ambiguous", id |-> <<>>, count |-> Len(matches)]

\* update(): the updater (a function on the loaded records) is applied to the
\* first record with this id
storage_update(v, id, updater) ==
    IF \E i \in 1..Len(v) : v[i].id = id
    THEN LET i == CHOOSE k \in 1..Len(v) :
                    v[k].id = id /\ \A j \in 1..(k - 1) : v[j].id # id
         IN Outcome([v EXCEPT ![i] = updater[v[i]]], TRUE, "ok")
    ELSE Outcome(v, FALSE, "notfound")

\* pause_by_short_id / resume_by_short_id: prefix resolution as in
\* delete_by_short_id, then Reminder::pause / Reminder::resume on the match
pause_by_short_id(v, short_id) ==
    LET f == find_by_short_id(v, short_id)
    IN IF f.res = "ok" THEN storage_update(v, f.id, [r \in Range(v) |-> pause(r)])
       ELSE Outcome(v, FALSE, f.res)

resume_by_short_id(v, short_id, t) ==
    LET f == find_by_short_id(v, short_id)
    IN IF f.res = "ok" THEN storage_update(v, f.id, [r \in Range(v) |-> resume(r, t)])
       ELSE Outcome(v, FALSE, f.res)

\* mutant: retain() also drops the paused records
clean_completed_drops_paused(v) ==
    LET keep(r) == ~r.completed /\ ~r.paused
        kept == SelectSeq(v, keep)
        removed == Len(v) - Len(kept)
    IN [mem |-> kept, save |-> removed > 0, res |-> "ok", count |-> removed]

\* clean_completed(): retain(|r| !r.completed), save when removed > 0,
\* Ok(removed)
clean_completed(v) ==
    LET keep(r) == ~r.completed
        kept == SelectSeq(v, keep)
        removed == Len(v) - Len(kept)
    IN [mem |-> kept, save |-> removed > 0, res |-> "ok", count |-> removed]

\* import_from_file: existing_ids is computed once, before the loop
RECURSIVE ImportLoop(_, _, _, _, _)
ImportLoop(imported, existing, existing_ids, overwrite, counts) ==
    IF imported = <<>> THEN [existing |-> existing, counts |-> counts]
    ELSE LET reminder == Head(imported)
             keep(r) == r.id # reminder.id
         IN IF reminder.id \in existing_ids
            THEN IF overwrite
                 THEN ImportLoop(Tail(imported), Append(SelectSeq(existing, keep), reminder),
                                 existing_ids, overwrite, <<counts[1] + 1, counts[2]>>)
                 ELSE ImportLoop(Tail(imported), existing,
                                 existing_ids, overwrite, <<counts[1], counts[2] + 1>>)
            ELSE ImportLoop(Tail(imported), Append(existing, reminder),
                            existing_ids, overwrite, <<counts[1] + 1, counts[2]>>)

\* mutant: stored records are replaced whether or not overwrite is set
import_from_file_forced(v, imported, overwrite) ==
    LET out == ImportLoop(imported, v, Ids(v), TRUE, <<0, 0>>)
    IN [mem |-> out.existing, save |-> TRUE, res |-> "ok", counts |-> out.counts]

\* mutant: stored records are kept whether or not overwrite is set
import_from_file_skips(v, imported, overwrite) ==
    LET out == ImportLoop(imported, v, Ids(v), FALSE, <<0, 0>>)
    IN [mem |-> out.existing, save |-> TRUE, res |-> "ok", counts |-> out.counts]

import_from_file(v, imported, overwrite) ==
    LET out == ImportLoop(imported, v, Ids(v), overwrite, <<0, 0>>)
    IN [mem |-> out.existing, save |-> TRUE, res |-> "ok", counts |-> out.counts]

---------------------------------------------------------------------------
(* Command handlers: src/src/main.rs *)

\* mutant: a new schedule does not reopen a completed reminder
EditUpdaterKeepsCompleted(r, c, t) ==
    LET pt == IF c.time # None THEN parse_time(Text(CHOOSE x \in c.time : TRUE), t) ELSE Err
        r2 == IF c.time # None /\ pt.ok
              THEN [r EXCEPT !.schedule = OneTime(pt.v), !.next_trigger = Some(pt.v)]
              ELSE r
        pc == IF c.cron # None THEN parse_cron(CHOOSE x \in c.cron : TRUE) ELSE Err
        r3 == IF c.cron # None /\ pc.ok /\ ScheduleFromStrOk(pc.v)
              THEN [r2 EXCEPT !.schedule = Cron(pc.v),
                              !.next_trigger = UpcomingNext(pc.v, t)]
              ELSE r2
    IN r3

\* mutant: a new one-time schedule leaves next_trigger as it was
EditUpdaterKeepsTrigger(r, c, t) ==
    LET pt == IF c.time # None THEN parse_time(Text(CHOOSE x \in c.time : TRUE), t) ELSE Err
        r2 == IF c.time # None /\ pt.ok
              THEN [r EXCEPT !.schedule = OneTime(pt.v), !.completed = FALSE]
              ELSE r
        pc == IF c.cron # None THEN parse_cron(CHOOSE x \in c.cron : TRUE) ELSE Err
        r3 == IF c.cron # None /\ pc.ok /\ ScheduleFromStrOk(pc.v)
              THEN [r2 EXCEPT !.schedule = Cron(pc.v),
                              !.next_trigger = UpcomingNext(pc.v, t),
                              !.completed = FALSE]
              ELSE r2
    IN r3

\* the closure edit_reminder passes to update()
EditUpdater(r, c, t) ==
    LET r1 == IF c.title # None
              THEN [r EXCEPT !.title = CHOOSE x \in c.title : TRUE] ELSE r
        pt == IF c.time # None THEN parse_time(Text(CHOOSE x \in c.time : TRUE), t) ELSE Err
        r2 == IF c.time # None /\ pt.ok
              THEN [r1 EXCEPT !.schedule = OneTime(pt.v), !.next_trigger = Some(pt.v),
                              !.completed = FALSE]
              ELSE r1
        pc == IF c.cron # None THEN parse_cron(CHOOSE x \in c.cron : TRUE) ELSE Err
        r3 == IF c.cron # None /\ pc.ok /\ ScheduleFromStrOk(pc.v)
              THEN [r2 EXCEPT !.schedule = Cron(pc.v),
                              !.next_trigger = UpcomingNext(pc.v, t),
                              !.completed = FALSE]
              ELSE r2
    IN r3

\* import files: a record whose recurrence rule no longer parses
ImportFiles ==
    << <<Reminder(<<1, 0>>, "x", Cron("garbage"), Some(0), FALSE, FALSE)>> >>

TimeInputs == {"0m", "soon"}
CronInputs == {"*", "garbage"}
ShortIds == {<<1>>, <<1, 1>>}
Opt(S) == {None} \cup {Some(x) : x \in S}

AddCmds ==
    {[op |-> "add", time |-> tm, cron |-> None] : tm \in Opt(TimeInputs)}
    \cup {[op |-> "add", time |-> None, cron |-> Some(c)] : c \in CronInputs}
IdCmds == {[op |-> o, id |-> s] : o \in {"delete", "pause", "resume"}, s \in ShortIds}
EditArgs ==
    {[title |-> None, time |-> Some("0m"), cron |-> None],
     [title |-> None, time |-> None, cron |-> Some("*")],
     [title |-> None, time |-> Some("soon"), cron |-> Some("*")],
     [title |-> None, time |-> Some("0m"), cron |-> Some("garbage")],
     [title |-> None, time |-> Some("0m"), cron |-> Some("*")]}
EditCmds ==
    {[op |-> "edit", id |-> s, title |-> a.title, time |-> a.time, cron |-> a.cron] :
        s \in ShortIds, a \in EditArgs}
CleanCmds == {[op |-> "clean"]}
ImportCmds ==
    {[op |-> "import", input |-> k, overwrite |-> o] :
        k \in 1..Len(ImportFiles), o \in BOOLEAN}

NoCmd == [op |-> "none"]
NoObs == [res |-> "none", target |-> <<>>, loaded |-> <<>>, rem |-> None,
          old |-> FALSE, conc |-> FALSE, counts |-> <<0, 0>>]

\* add_reminder up to the call of storage.add: Ok(reminder) or the error
BuildReminder(c, n, t) ==
    IF c.cron # None
    THEN LET pc == parse_cron(CHOOSE x \in c.cron : TRUE)
         IN IF pc.ok /\ ScheduleFromStrOk(pc.v)
            THEN Ok(new_cron(NewId(n), "a", pc.v, t)) ELSE Err
    ELSE IF c.time # None
         THEN LET pt == parse_time(Text(CHOOSE x \in c.time : TRUE), t)
              IN IF pt.ok THEN Ok(new_one_time(NewId(n), "a", pt.v)) ELSE Err
         ELSE Err

\* what each handler does to the Vec it has loaded
Handle(c, v, obs, t) ==
    CASE c.op = "add" -> storage_add(v, CHOOSE r \in obs.rem : TRUE)
      [] c.op = "delete" -> delete_by_short_id(v, c.id)
      [] c.op = "pause" -> pause_by_short_id(v, c.id)
      [] c.op = "resume" -> resume_by_short_id(v, c.id, t)
      [] c.op = "edit" ->
            storage_update(v, obs.target, [r \in Range(v) |-> EditUpdater(r, c, t)])
      [] c.op = "clean" -> clean_completed(v)
      [] c.op = "import" -> import_from_file(v, ImportFiles[c.input], c.overwrite)

\* ids of the records a command rewrites on purpose
Touched(c, obs) ==
    CASE c.op \in {"edit"} -> {obs.target}
      [] c.op \in {"delete", "pause", "resume"} ->
            {r.id : r \in {x \in Range(obs.loaded) : StartsWith(x.id, c.id)}}
      [] c.op = "import" -> Ids(ImportFiles[c.input])
      [] OTHER -> {}

daemonVars == <<dpc, reminders, updated, dcycle>>

CStart(c) ==
    /\ cpc = "idle"
    /\ nCmds < MaxCmds
    /\ nCmds' = nCmds + 1
    /\ cmd' = c
    /\ IF c.op = "add"
       THEN LET b == BuildReminder(c, nAdds, now)
            IN IF b.ok
               THEN /\ nAdds' = nAdds + 1
                    /\ cobs' = [NoObs EXCEPT !.rem = Some(b.v)]
                    /\ cpc' = "load_open"
               ELSE /\ cobs' = [NoObs EXCEPT !.res = "err"]
                    /\ cpc' = "done"
                    /\ UNCHANGED nAdds
       ELSE /\ cobs' = NoObs
            /\ cpc' = IF c.op = "edit" THEN "find_open" ELSE "load_open"
            /\ UNCHANGED nAdds
    /\ UNCHANGED <<now, file, excl, shared, cmem, fired, daemonVars, entVars, stVars, hbVars, prVars>>

CAdd == \E c \in AddCmds : CStart(c)
CById == \E c \in IdCmds : CStart(c)
CEdit == \E c \in EditCmds : CStart(c)
CClean == \E c \in CleanCmds : CStart(c)
CImport == \E c \in ImportCmds : CStart(c)

\* the handler continues with the result of load()
AfterLoad(res, conc) ==
    IF ~res.ok
    THEN /\ cobs' = [cobs EXCEPT !.res = "err", !.conc = conc]
         /\ cpc' = "done"
         /\ UNCHANGED cmem
    ELSE IF cpc \in {"find_open", "find_read"}
         THEN LET f == find_by_short_id(res.v, cmd.id)
              IN /\ cobs' = [cobs EXCEPT !.res = IF f.res = "ok" THEN "none" ELSE f.res,
                                         !.target = f.id, !.conc = conc]
                 /\ cpc' = IF f.res = "ok" THEN "load_open" ELSE "done"
                 /\ UNCHANGED cmem
         ELSE LET out == Handle(cmd, res.v, cobs, now)
              IN /\ cmem' = out.mem
                 /\ cobs' = [cobs EXCEPT !.res = out.res, !.loaded = res.v,
                                         !.conc = conc,
                                         !.counts = IF cmd.op = "import"
                                                    THEN out.counts ELSE <<0, 0>>]
                 /\ cpc' = IF out.save THEN "save_open" ELSE "done"

CLoadOpen ==
    /\ cpc \in {"find_open", "load_open"}
    /\ \/ /\ LoadMissing(file)
          /\ AfterLoad(Ok(<<>>), FALSE)
          /\ UNCHANGED shared
       \/ /\ ~LoadMissing(file)
          /\ CanLockShared("cli")
          /\ shared' = shared \cup {"cli"}
          /\ cpc' = IF cpc = "find_open" THEN "find_read" ELSE "load_read"
          /\ UNCHANGED <<cmem, cobs>>
       \/ /\ ~LoadMissing(file)          \* File::open or lock_shared fails
          /\ AfterLoad(Err, FALSE)
          /\ UNCHANGED shared
    /\ UNCHANGED <<now, file, excl, cmd, nAdds, nCmds, fired, daemonVars, entVars, stVars, hbVars, prVars>>

CLoadRead ==
    /\ cpc \in {"find_read", "load_read"}
    /\ shared' = shared \ {"cli"}
    /\ AfterLoad(LoadContent(file), DaemonMidSave)
    /\ UNCHANGED <<now, file, excl, cmd, nAdds, nCmds, fired, daemonVars, entVars, stVars, hbVars, prVars>>

CSaveOpen ==
    /\ cpc = "save_open"
    /\ \/ /\ file' = SaveOpenTruncate(file)
          /\ cobs' = [cobs EXCEPT !.old = Len(file.data) > 0]
          /\ cpc' = "save_lock"
       \/ /\ cobs' = [cobs EXCEPT !.res = "err"]           \* open fails
          /\ cpc' = "done"
          /\ UNCHANGED file
    /\ UNCHANGED <<now, excl, shared, cmd, cmem, nAdds, nCmds, fired,
                   daemonVars, entVars, stVars, hbVars, prVars>>

CSaveLock ==
    /\ cpc = "save_lock"
    /\ CanLockExclusive("cli")
    /\ excl' = "cli"
    /\ cpc' = "save_write"
    /\ UNCHANGED <<now, file, shared, cmd, cmem, cobs, nAdds, nCmds, fired,
                   daemonVars, entVars, stVars, hbVars, prVars>>

CSaveWrite ==
    /\ cpc = "save_write"
    /\ excl' = "none"
    /\ \/ /\ file' = SaveWriteAll(cmem)
          /\ fired' = fired \ Touched(cmd, cobs)
          /\ UNCHANGED cobs
       \/ /\ file' \in FailedWrite                         \* write_all fails
          /\ cobs' = [cobs EXCEPT !.res = "err"]
          /\ UNCHANGED fired
    /\ cpc' = "done"
    /\ UNCHANGED <<now, shared, cmd, cmem, nAdds, nCmds, daemonVars, entVars, stVars, hbVars, prVars>>

\* the command process exits
CExit ==
    /\ cpc = "done"
    /\ cpc' = "idle"
    /\ cmd' = NoCmd
    /\ cmem' = <<>>
    /\ cobs' = NoObs
    /\ UNCHANGED <<now, file, excl, shared, nAdds, nCmds, fired, daemonVars, entVars, stVars, hbVars, prVars>>

---------------------------------------------------------------------------
(* Specifications *)

NoEntity == Reminder(<<0>>, "", OneTime(0), None, FALSE, FALSE)
NoBeat == [cycles |-> 0, outcome |-> "none", total |-> 0, failed |-> FALSE]
NoInput == [fn |-> "none"]
NoOutput == [ok |-> FALSE, v |-> 0, err |-> "none"]
NoRet == [res |-> "none", exit |-> "none", id |-> <<>>, count |-> 0,
          counts |-> <<0, 0>>, saved |-> FALSE]
NoOps == [prev |-> "none", last |-> "none", at |-> 0]

Init ==
    /\ now = 0
    /\ file = MissingFile
    /\ excl = "none"
    /\ shared = {}
    /\ dpc = "load"
    /\ reminders = <<>>
    /\ updated = FALSE
    /\ dcycle = NoCycle
    /\ cmd = NoCmd
    /\ cpc = "idle"
    /\ cmem = <<>>
    /\ cobs = NoObs
    /\ nAdds = 0
    /\ nCmds = 0
    /\ fired = {}
    /\ ent = NoEntity
    /\ entPrev = NoEntity
    /\ entOps = NoOps
    /\ entRes = FALSE
    /\ store = <<>>
    /\ storePrev = <<>>
    /\ stCmd = NoCmd
    /\ stRet = NoRet
    /\ hpc = "load"
    /\ heartbeat_counter = 0
    /\ hbAge = 0
    /\ hbInfo = NoBeat
    /\ prIn = NoInput
    /\ prOut = NoOutput

DaemonStep ==
    \/ DLoadOpen \/ DLoadRead \/ DProcess \/ DSaveOpen \/ DSaveLock
    \/ DSaveWrite \/ DSleep

CliStep == CLoadOpen \/ CLoadRead \/ CSaveOpen \/ CSaveLock \/ CSaveWrite \/ CExit

\* add, edit, pause, resume, delete, clean and the daemon
NextCmds == Tick \/ DaemonStep \/ CAdd \/ CById \/ CEdit \/ CClean \/ CliStep

Next == NextCmds \/ CImport

Spec == Init /\ [][Next]_vars

SpecCmds == Init /\ [][NextCmds]_vars

\* The daemon and add commands under fair scheduling, with no I/O failure:
\* no open, lock, read or write of the snapshot returns an error (the
\* premise "loads eventually succeed", strengthened to every I/O call).  The
\* daemon thread and a started command process keep running, and the clock
\* advances.
LiveDaemonStep == DaemonStep /\ dcycle'.err = "none"

LiveCliStep == CliStep /\ cobs'.res # "err"

NextLive == Tick \/ LiveDaemonStep \/ CAdd \/ LiveCliStep

SpecLive ==
    /\ Init
    /\ [][NextLive]_vars
    /\ WF_vars(Tick)
    /\ WF_vars(LiveDaemonStep)
    /\ WF_vars(LiveCliStep)

---------------------------------------------------------------------------
(* The Reminder entity on its own: every value of the struct that serde    *)
(* can deserialize, and the methods of impl Reminder applied to it.        *)

Entities ==
    {Reminder(<<1, 1>>, "a", sch, nt, c, p) :
        sch \in {OneTime(t) : t \in 0..MaxTime} \cup {Cron(e) : e \in CronExprs},
        nt \in Opt(0..(MaxTime + 1)), c \in BOOLEAN, p \in BOOLEAN}

InitEntity ==
    /\ now \in 0..MaxTime
    /\ file = MissingFile
    /\ excl = "none"
    /\ shared = {}
    /\ dpc = "load"
    /\ reminders = <<>>
    /\ updated = FALSE
    /\ dcycle = NoCycle
    /\ cmd = NoCmd
    /\ cpc = "idle"
    /\ cmem = <<>>
    /\ cobs = NoObs
    /\ nAdds = 0
    /\ nCmds = 0
    /\ fired = {}
    /\ ent \in Entities
    /\ entPrev = ent
    /\ entOps = NoOps
    /\ entRes = FALSE
    /\ store = <<>>
    /\ storePrev = <<>>
    /\ stCmd = NoCmd
    /\ stRet = NoRet
    /\ hpc = "load"
    /\ heartbeat_counter = 0
    /\ hbAge = 0
    /\ hbInfo = NoBeat
    /\ prIn = NoInput
    /\ prOut = NoOutput

Applied(op) == [prev |-> entOps.last, last |-> op, at |-> now]

EntIsDue ==
    /\ entRes' = is_due(ent, now)
    /\ entPrev' = ent
    /\ entOps' = Applied("is_due")
    /\ UNCHANGED <<now, mainVars, stVars, hbVars, prVars, ent>>

EntCalculateNextTrigger ==
    /\ ent' = calculate_next_trigger(ent, now)
    /\ entPrev' = ent
    /\ entOps' = Applied("calculate_next_trigger")
    /\ UNCHANGED <<now, mainVars, stVars, hbVars, prVars, entRes>>

EntPause ==
    /\ ent' = pause(ent)
    /\ entPrev' = ent
    /\ entOps' = Applied("pause")
    /\ UNCHANGED <<now, mainVars, stVars, hbVars, prVars, entRes>>

EntResume ==
    /\ ent' = resume(ent, now)
    /\ entPrev' = ent
    /\ entOps' = Applied("resume")
    /\ UNCHANGED <<now, mainVars, stVars, hbVars, prVars, entRes>>

NextEntity == Tick \/ EntIsDue \/ EntCalculateNextTrigger \/ EntPause \/ EntResume

SpecEntity == InitEntity /\ [][NextEntity]_vars

---------------------------------------------------------------------------
(* The store operations and command handlers on their own: one process    *)
(* runs commands to completion on a persisted collection drawn from the    *)
(* collections the commands can have built.                                *)

\* delete(): retain the records with another id, save when one was removed
storage_delete(v, id) ==
    LET keep(r) == r.id # id
        kept == SelectSeq(v, keep)
    IN IF Len(kept) = Len(v) THEN Outcome(v, FALSE, "notfound")
       ELSE Outcome(kept, TRUE, "ok")

\* how a handler of main.rs ends for a result of its store operation: `?`
\* propagates an Err (I/O, parse, ambiguity); show and edit turn None into
\* an Err with ok_or_else; delete, pause and resume print and return Ok(())
ExitStatus(op, res) ==
    IF res \in {"err", "ambiguous"} THEN "err"
    ELSE IF res = "notfound" /\ op \in {"show", "edit"} THEN "err"
         ELSE "ok"

\* Uuid::new_v4(): an identifier no stored record has
FreshIndex(v) == CHOOSE n \in 0..(2 * Len(v) + 1) :
                    /\ NewId(n) \notin Ids(v)
                    /\ \A m \in 0..(n - 1) : NewId(m) \in Ids(v)

StIds == {NewId(n) : n \in 0..2}

\* an active one-time reminder, a completed one, a paused recurring one
StRecords ==
    UNION {{Reminder(id, "a", OneTime(1), Some(1), FALSE, FALSE),
            Reminder(id, "a", OneTime(0), None, TRUE, FALSE),
            Reminder(id, "a", Cron("*"), Some(1), FALSE, TRUE)} : id \in StIds}

Stores ==
    {s \in UNION {[1..k -> StRecords] : k \in 0..Cardinality(StIds)} :
        \A i, j \in DOMAIN s : s[i].id = s[j].id => i = j}

\* import files: records with a stored identifier (in two versions) and with
\* a new one, in any order and with repetitions
StImportRecords ==
    {Reminder(NewId(0), "i", OneTime(1), Some(1), FALSE, FALSE),
     Reminder(NewId(0), "j", Cron("*"), Some(1), FALSE, FALSE),
     Reminder(NewId(4), "i", OneTime(1), Some(1), FALSE, FALSE)}

StImportFiles == UNION {[1..k -> StImportRecords] : k \in 1..2}

StShortIds == ShortIds \cup {<<2>>, <<3>>}

StEditArgs ==
    {[title |-> ti, time |-> tm, cron |-> cr] :
        ti \in Opt({"t"}), tm \in Opt(TimeInputs), cr \in Opt(CronInputs)}

StCmds ==
    AddCmds
    \cup {[op |-> o, id |-> s] : o \in {"show", "delete", "pause", "resume"},
                                 s \in StShortIds}
    \cup {[op |-> "edit", id |-> s, title |-> a.title, time |-> a.time,
           cron |-> a.cron] : s \in StShortIds, a \in StEditArgs}
    \cup CleanCmds
    \cup {[op |-> "import", file |-> f, overwrite |-> o] :
            f \in StImportFiles, o \in BOOLEAN}
    \cup {[op |-> o, uuid |-> NewId(n)] : o \in {"store_delete", "store_update"},
                                         n \in {0, 3}}

\* what a command leaves in the snapshot and returns
StResult(v, c, out, id, count) ==
    [store |-> IF out.save THEN out.mem ELSE v,
     ret |-> [res |-> out.res, exit |-> ExitStatus(c.op, out.res), id |-> id,
              count |-> count,
              counts |-> IF c.op = "import" THEN out.counts ELSE <<0, 0>>,
              saved |-> out.save]]

\* a handler of main.rs (or a store method) run to completion on v
RunCommand(c, v, t) ==
    CASE c.op = "add" ->
            LET b == BuildReminder(c, FreshIndex(v), t)
            IN IF b.ok
               THEN StResult(v, c, Handle(c, v, [NoObs EXCEPT !.rem = Some(b.v)], t),
                             b.v.id, 0)
               ELSE StResult(v, c, Outcome(v, FALSE, "err"), <<>>, 0)
      [] c.op = "show" ->
            LET f == find_by_short_id(v, c.id)
            IN StResult(v, c, Outcome(v, FALSE, f.res), f.id, f.count)
      [] c.op = "edit" ->
            LET f == find_by_short_id(v, c.id)
            IN IF f.res = "ok"
               THEN StResult(v, c, Handle(c, v, [NoObs EXCEPT !.target = f.id], t),
                             f.id, f.count)
               ELSE StResult(v, c, Outcome(v, FALSE, f.res), f.id, f.count)
      [] c.op = "delete" ->
            LET out == Handle(c, v, NoObs, t)
            IN StResult(v, c, out,
                        IF out.res = "ok" THEN out.id ELSE <<>>,
                        IF out.res = "ambiguous" THEN out.count
                        ELSE IF out.res = "ok" THEN 1 ELSE 0)
      [] c.op \in {"pause", "resume"} ->
            LET f == find_by_short_id(v, c.id)
            IN StResult(v, c, Handle(c, v, NoObs, t), f.id, f.count)
      [] c.op = "clean" ->
            LET out == Handle(c, v, NoObs, t)
            IN StResult(v, c, out, <<>>, out.count)
      [] c.op = "import" ->
            StResult(v, c, import_from_file(v, c.file, c.overwrite), <<>>, 0)
      [] c.op = "store_delete" ->
            StResult(v, c, storage_delete(v, c.uuid), c.uuid, 0)
      [] c.op = "store_update" ->
            StResult(v, c, storage_update(v, c.uuid, [r \in Range(v) |-> pause(r)]),
                     c.uuid, 0)

InitStore ==
    /\ now \in 0..MaxTime
    /\ file = MissingFile
    /\ excl = "none"
    /\ shared = {}
    /\ dpc = "load"
    /\ reminders = <<>>
    /\ updated = FALSE
    /\ dcycle = NoCycle
    /\ cmd = NoCmd
    /\ cpc = "idle"
    /\ cmem = <<>>
    /\ cobs = NoObs
    /\ nAdds = 0
    /\ nCmds = 0
    /\ fired = {}
    /\ ent = NoEntity
    /\ entPrev = NoEntity
    /\ entOps = NoOps
    /\ entRes = FALSE
    /\ store \in Stores
    /\ storePrev = store
    /\ stCmd = NoCmd
    /\ stRet = NoRet
    /\ hpc = "load"
    /\ heartbeat_counter = 0
    /\ hbAge = 0
    /\ hbInfo = NoBeat
    /\ prIn = NoInput
    /\ prOut = NoOutput

\* one command is applied to each collection under test
StRun(c) ==
    /\ stCmd = NoCmd
    /\ LET r == RunCommand(c, store, now)
       IN /\ store' = r.store
          /\ stRet' = r.ret
    /\ storePrev' = store
    /\ stCmd' = c
    /\ UNCHANGED <<now, mainVars, entVars, hbVars, prVars>>

StAdd == \E c \in {x \in StCmds : x.op = "add"} : StRun(c)
StShow == \E c \in {x \in StCmds : x.op = "show"} : StRun(c)
StDelete == \E c \in {x \in StCmds : x.op = "delete"} : StRun(c)
StEdit == \E c \in {x \in StCmds : x.op = "edit"} : StRun(c)
StPauseResume == \E c \in {x \in StCmds : x.op \in {"pause", "resume"}} : StRun(c)
StClean == \E c \in {x \in StCmds : x.op = "clean"} : StRun(c)
StImport == \E c \in {x \in StCmds : x.op = "import"} : StRun(c)
StStoreMethod ==
    \E c \in {x \in StCmds : x.op \in {"store_delete", "store_update"}} : StRun(c)

NextStore ==
    \/ Tick \/ StAdd \/ StShow \/ StDelete \/ StEdit \/ StPauseResume
    \/ StClean \/ StImport \/ StStoreMethod

SpecStore == InitStore /\ [][NextStore]_vars

---------------------------------------------------------------------------
(* Storage::load() on every kind of snapshot: src/src/storage.rs 27-51.    *)

\* load() run to completion: "ok" with the collection, "parse" or "io"
load(f, io) ==
    IF LoadMissing(f) THEN [res |-> "ok", v |-> <<>>]
    ELSE IF io # "ok" THEN [res |-> "io", v |-> <<>>]
    ELSE IF LoadContent(f).ok THEN [res |-> "ok", v |-> LoadContent(f).v]
    ELSE [res |-> "parse", v |-> <<>>]

InitLoad ==
    /\ now = 0
    /\ file \in {MissingFile, EmptyFile, BlankFile, PartialFile}
               \cup {JsonFile(v) : v \in Stores}
    /\ excl = "none"
    /\ shared = {}
    /\ dpc = "load"
    /\ reminders = <<>>
    /\ updated = FALSE
    /\ dcycle = NoCycle
    /\ cmd = NoCmd
    /\ cpc = "idle"
    /\ cmem = <<>>
    /\ cobs = NoObs
    /\ nAdds = 0
    /\ nCmds = 0
    /\ fired = {}
    /\ ent = NoEntity
    /\ entPrev = NoEntity
    /\ entOps = NoOps
    /\ entRes = FALSE
    /\ store = <<>>
    /\ storePrev = <<>>
    /\ stCmd = NoCmd
    /\ stRet = NoRet
    /\ hpc = "load"
    /\ heartbeat_counter = 0
    /\ hbAge = 0
    /\ hbInfo = NoBeat
    /\ prIn = NoInput
    /\ prOut = NoOutput

\* one call of load(); the file is opened with File::open and only read;
\* File::open, lock_shared, read_to_string and unlock may each fail
StLoad ==
    /\ stCmd = NoCmd
    /\ \E io \in {"ok", "open_failed", "lock_failed", "read_failed",
                  "unlock_failed"} :
          LET r == load(file, io)
          IN /\ store' = r.v
             /\ stRet' = [NoRet EXCEPT !.res = r.res]
             /\ stCmd' = [op |-> "load", snapshot |-> file, io |-> io]
    /\ UNCHANGED <<storePrev, now, mainVars, entVars, hbVars, prVars>>

SpecLoad == InitLoad /\ [][StLoad]_vars

---------------------------------------------------------------------------
(* The normalizers on their own: src/src/time_parser.rs,                   *)
(* src/src/cron_parser.rs, and add_reminder's use of parse_time.           *)

\* Local::now(): every weekday from Monday 2024-12-30 to Sunday 2025-01-05,
\* at 00:00, 09:00 and 23:59
ParseClock == {d * MinutesPerDay + m : d \in 7..13, m \in {0, 540, 1439}}

\* the date references of parse_natural
DateRefs ==
    LET days == {"monday", "tuesday", "wednesday", "thursday", "friday",
                 "saturday", "sunday"}
    IN {<<Letters(w)>> : w \in {"today", "tomorrow", "yesterday"} \cup days}
       \cup {<<Letters(p), Space(" "), Letters(w)>> :
               p \in {"next", "this"}, w \in days}

\* amounts: 0, 1, 30, 02, one of 17 digits and one of 20 digits
Amounts ==
    {<<0>>, <<1>>, <<3, 0>>, <<0, 2>>, [i \in 1..17 |-> 9], [i \in 1..20 |-> 9]}

\* the inputs of parse_time: every date reference with every time of day
\* (none, 9:00, 9am, 14:30, 12am, 1pm, 25); every amount with a unit, with
\* and without whitespace; and -5m, 1.5h, 30x, soon, " 30m ", TODAY,
\* Monday 9am, 2025-01-01 00:30, 2025-01-01 24:00, "next  monday 9am"
TimeTexts ==
    LET times == {<<>>,
                  <<Digits(<<9>>), Punct(":"), Digits(<<0, 0>>)>>,
                  <<Digits(<<9>>), Letters("am")>>,
                  <<Digits(<<1, 4>>), Punct(":"), Digits(<<3, 0>>)>>,
                  <<Digits(<<1, 2>>), Letters("am")>>,
                  <<Digits(<<1>>), Letters("pm")>>,
                  <<Digits(<<2, 5>>)>>}
        date == <<Digits(<<2, 0, 2, 5>>), Punct("-"), Digits(<<0, 1>>),
                  Punct("-"), Digits(<<0, 1>>), Space(" ")>>
    IN {IF tod = <<>> THEN d ELSE d \o <<Space(" ")>> \o tod :
            d \in DateRefs, tod \in times}
       \cup {<<Digits(a), Letters(u)>> :
               a \in Amounts, u \in {"m", "h", "d", "w", "minutes", "M"}}
       \cup {<<Digits(a), Space(" "), Letters(u)>> :
               a \in Amounts, u \in {"m", "h", "d", "w"}}
       \cup {<<Punct("-"), Digits(<<5>>), Letters("m")>>,
              <<Digits(<<1>>), Punct("."), Digits(<<5>>), Letters("h")>>,
              <<Digits(<<3, 0>>), Letters("x")>>,
              <<Letters("soon")>>,
              <<Space(" "), Digits(<<3, 0>>), Letters("m"), Space(" ")>>,
              <<Letters("TODAY")>>,
              <<Letters("Monday"), Space(" "), Digits(<<9>>), Letters("am")>>,
              date \o <<Digits(<<0, 0>>), Punct(":"), Digits(<<3, 0>>)>>,
              date \o <<Digits(<<2, 4>>), Punct(":"), Digits(<<0, 0>>)>>,
              <<Letters("next"), Space("  "), Letters("monday"), Space(" "),
                Digits(<<9>>), Letters("am")>>}

CronTexts ==
    ValidCron \cup {"garbage", "every 2 minutes", "every 0 minutes", "*/0",
                    " * ", " */2", "every 2 minutes ", " garbage "}

InitParse ==
    /\ now \in ParseClock
    /\ file = MissingFile
    /\ excl = "none"
    /\ shared = {}
    /\ dpc = "load"
    /\ reminders = <<>>
    /\ updated = FALSE
    /\ dcycle = NoCycle
    /\ cmd = NoCmd
    /\ cpc = "idle"
    /\ cmem = <<>>
    /\ cobs = NoObs
    /\ nAdds = 0
    /\ nCmds = 0
    /\ fired = {}
    /\ ent = NoEntity
    /\ entPrev = NoEntity
    /\ entOps = NoOps
    /\ entRes = FALSE
    /\ store = <<>>
    /\ storePrev = <<>>
    /\ stCmd = NoCmd
    /\ stRet = NoRet
    /\ hpc = "load"
    /\ heartbeat_counter = 0
    /\ hbAge = 0
    /\ hbInfo = NoBeat
    /\ prIn = NoInput
    /\ prOut = NoOutput

\* parse_time(&time_str) at the clock `now`
PrParseTime ==
    /\ prIn = NoInput
    /\ \E x \in TimeTexts :
          /\ prIn' = [fn |-> "parse_time", text |-> x]
          /\ prOut' = parse_time(x, now)
    /\ UNCHANGED <<now, mainVars, entVars, stVars, hbVars>>

\* add_reminder: Reminder::new_one_time(title, description, datetime, tags)
PrNewOneTime ==
    /\ prIn.fn = "parse_time"
    /\ prOut.ok
    /\ entOps = NoOps
    /\ ent' = new_one_time(NewId(0), "a", prOut.v)
    /\ entOps' = [NoOps EXCEPT !.last = "new_one_time"]
    /\ UNCHANGED <<now, mainVars, entPrev, entRes, stVars, hbVars, prVars>>

\* parse_cron(&cron_input)
PrParseCron ==
    /\ prIn = NoInput
    /\ \E x \in CronTexts :
          /\ prIn' = [fn |-> "parse_cron", text |-> x]
          /\ prOut' = parse_cron(x)
    /\ UNCHANGED <<now, mainVars, entVars, stVars, hbVars>>

SpecParse == InitParse /\ [][PrParseTime \/ PrNewOneTime \/ PrParseCron]_vars

\* parse_time("today <time>") for every time of day the time_re of
\* parse_natural captures: an hour of one or two digits (0..99, also written
\* 00..09), no minute or a minute of two digits (00..99), and no suffix, am
\* or pm; the clock is Monday 2024-12-30 09:00
InitTimeOfDay == InitParse /\ now = 7 * MinutesPerDay + 540

PrTimeOfDay ==
    /\ prIn = NoInput
    /\ \E h \in 0..99, w \in 1..2, m \in -1..99, ap \in {"none", "am", "pm"} :
          LET hd == IF w = 1 THEN <<h>> ELSE <<h \div 10, h % 10>>
              text == <<Letters("today"), Space(" "), Digits(hd)>>
                      \o (IF m >= 0
                          THEN <<Punct(":"), Digits(<<m \div 10, m % 10>>)>>
                          ELSE <<>>)
                      \o (IF ap = "none" THEN <<>> ELSE <<Letters(ap)>>)
          IN /\ w = 1 => h < 10
             /\ prIn' = [fn |-> "time_of_day", text |-> text, hour |-> h,
                         minute |-> IF m >= 0 THEN m ELSE 0, ampm |-> ap]
             /\ prOut' = parse_time(text, now)
    /\ UNCHANGED <<now, mainVars, entVars, stVars, hbVars>>

SpecTimeOfDay == InitTimeOfDay /\ [][PrTimeOfDay]_vars

---------------------------------------------------------------------------
(* The heartbeat of run_daemon_loop: src/src/daemon.rs.  Time is in        *)
(* seconds; the store work of a cycle takes up to MaxWorkSecs.             *)

POLL_INTERVAL_SECS == 10
HEARTBEAT_INTERVAL_SECS == 30
HEARTBEAT_TIMEOUT_SECS == 120

\* mutant: the tail of the loop is skipped after a failed cycle
BeatsAfterSuccessOnly(outcome) == outcome \in {"saved", "idle"}

\* the heartbeat code follows the `match` and runs whatever its outcome
BeatsAfter(outcome) == TRUE

\* check_heartbeat() on a heartbeat file written `age` seconds ago
check_heartbeat(age) == age < HEARTBEAT_TIMEOUT_SECS

\* run_daemon_loop up to `loop`: write_heartbeat(), heartbeat_counter = 0.
\* write_heartbeat() discards the result of fs::write.
InitHeartbeat ==
    /\ now = 0
    /\ file = MissingFile
    /\ excl = "none"
    /\ shared = {}
    /\ dpc = "load"
    /\ reminders = <<>>
    /\ updated = FALSE
    /\ dcycle = NoCycle
    /\ cmd = NoCmd
    /\ cpc = "idle"
    /\ cmem = <<>>
    /\ cobs = NoObs
    /\ nAdds = 0
    /\ nCmds = 0
    /\ fired = {}
    /\ ent = NoEntity
    /\ entPrev = NoEntity
    /\ entOps = NoOps
    /\ entRes = FALSE
    /\ store = <<>>
    /\ storePrev = <<>>
    /\ stCmd = NoCmd
    /\ stRet = NoRet
    /\ hpc = "load"
    /\ heartbeat_counter = 0
    /\ hbAge = 0
    /\ hbInfo \in {[NoBeat EXCEPT !.failed = f] : f \in BOOLEAN}
    /\ prIn = NoInput
    /\ prOut = NoOutput

\* one `match storage.load() { ... }`: load, dispatch, save, or the error arms
HbCycle ==
    /\ hpc = "load"
    /\ hbInfo.total < MaxCycles
    /\ \E outcome \in {"saved", "idle", "load_failed", "save_failed"}, w \in 0..MaxWorkSecs :
          /\ hbAge' = hbAge + w
          /\ hbInfo' = [hbInfo EXCEPT !.outcome = outcome, !.cycles = @ + 1,
                                      !.total = @ + 1]
          /\ hpc' = IF BeatsAfter(outcome) THEN "beat" ELSE "sleep"
    /\ UNCHANGED <<now, mainVars, entVars, stVars, prVars, heartbeat_counter>>

\* heartbeat_counter += POLL_INTERVAL_SECS; if it has reached
\* HEARTBEAT_INTERVAL_SECS: write_heartbeat() and heartbeat_counter = 0
HbBeat ==
    /\ hpc = "beat"
    /\ hpc' = "sleep"
    /\ LET counter == heartbeat_counter + POLL_INTERVAL_SECS
       IN IF counter >= HEARTBEAT_INTERVAL_SECS
          THEN /\ heartbeat_counter' = 0
               /\ \/ /\ hbAge' = 0
                     /\ hbInfo' = [hbInfo EXCEPT !.cycles = 0, !.failed = FALSE]
                  \/ /\ hbInfo' = [hbInfo EXCEPT !.cycles = 0, !.failed = TRUE]
                     /\ UNCHANGED hbAge                    \* fs::write fails
          ELSE /\ heartbeat_counter' = counter
               /\ UNCHANGED <<hbAge, hbInfo>>
    /\ UNCHANGED <<now, mainVars, entVars, stVars, prVars>>

\* thread::sleep(Duration::from_secs(POLL_INTERVAL_SECS))
HbSleep ==
    /\ hpc = "sleep"
    /\ hpc' = "load"
    /\ hbAge' = hbAge + POLL_INTERVAL_SECS
    /\ UNCHANGED <<now, mainVars, entVars, stVars, prVars, heartbeat_counter, hbInfo>>

SpecHeartbeat == InitHeartbeat /\ [][HbCycle \/ HbBeat \/ HbSleep]_vars

---------------------------------------------------------------------------
(* Claims *)

\* the daemon has run the `for` loop of this cycle and is about to save
CycleProcessed == dpc = "save_open"

\* C1: in a daemon cycle every due reminder is dispatched and rescheduled
\* whether its notification succeeds or fails: the collection about to be
\* saved is the one a cycle without notifier failures produces, each due
\* reminder has calculate_next_trigger applied, and each was sent.
C1_RescheduledWhateverTheNotifier ==
    CycleProcessed =>
        /\ reminders = RunCycle(dcycle.loaded, dcycle.at, {}).rems
        /\ \A i \in DueIndices(dcycle.loaded, dcycle.at) :
              /\ reminders[i] = calculate_next_trigger(dcycle.loaded[i], dcycle.at)
              /\ \E k \in 1..Len(dcycle.sent) : dcycle.sent[k].id = dcycle.loaded[i].id
        /\ Len(dcycle.sent) = Cardinality(DueIndices(dcycle.loaded, dcycle.at))

\* a cycle in which the notifier failed on a reminder that is followed by
\* another due reminder
C1_Witness ==
    /\ CycleProcessed
    /\ \E i \in dcycle.fails :
         \E j \in DueIndices(dcycle.loaded, dcycle.at) : j > i

\* C2 (as claimed): a one-time reminder whose dispatch a daemon cycle has
\* saved is not dispatched by a later cycle unless a command rewrote it.
C2_DispatchedOnce ==
    CycleProcessed =>
        \A k \in 1..Len(dcycle.sent) : dcycle.sent[k].id \notin fired

\* C3: is_due() is false when completed or paused, and otherwise true exactly
\* when next_trigger is set and the instant of the call is at or after it.
C3_IsDue ==
    entOps.last = "is_due" =>
        /\ (ent.completed \/ ent.paused) => entRes = FALSE
        /\ ~(ent.completed \/ ent.paused) =>
              (entRes <=> (ent.next_trigger # None
                           /\ \A n \in ent.next_trigger : entOps.at >= n))

\* is_due() called at the exact instant of next_trigger
C3_Witness ==
    /\ entOps.last = "is_due"
    /\ entRes = TRUE
    /\ ent.next_trigger = Some(entOps.at)

\* C4 (as claimed): a load() that runs while another process is replacing a
\* non-empty snapshot by a non-empty one returns a non-empty collection.
C4_LoadSeesOldOrNew ==
    /\ dcycle.conc => (dcycle.err = "none" /\ Len(dcycle.loaded) > 0)
    /\ (cobs.conc /\ cpc \in {"save_open", "save_lock", "save_write"})
          => Len(cobs.loaded) > 0

\* C5 (as claimed): between the load of a store mutation and its save, no
\* other process's save takes effect.
C5_RoundTripUnderLock ==
    cpc = "save_open" => ~(file.kind = "json" /\ file.data # cobs.loaded)

\* C6: for a OneTime reminder calculate_next_trigger() leaves completed set
\* and next_trigger None, and a second call changes nothing.
C6_OneTimeCompletes ==
    (entOps.last = "calculate_next_trigger" /\ ent.schedule.kind = "OneTime") =>
        /\ ent.completed
        /\ ent.next_trigger = None
        /\ entOps.prev = "calculate_next_trigger" => ent = entPrev

\* a second call on a OneTime reminder
C6_Witness ==
    /\ entOps.last = "calculate_next_trigger"
    /\ entOps.prev = "calculate_next_trigger"
    /\ ent.schedule.kind = "OneTime"

\* C7: for a Recurring reminder with a parsable rule, the next_trigger that
\* calculate_next_trigger() sets is strictly later than the instant of the
\* call, and the reminder is not due at that instant.
C7_RecurringStrictlyLater ==
    (/\ entOps.last = "calculate_next_trigger"
     /\ ent.schedule.kind = "Cron"
     /\ ScheduleFromStrOk(ent.schedule.expr)) =>
        /\ \A n \in ent.next_trigger : n > entOps.at
        /\ ~is_due(ent, entOps.at)

\* a due recurring reminder rescheduled at an instant at which its rule fires
C7_Witness ==
    /\ entOps.last = "calculate_next_trigger"
    /\ ent.schedule.kind = "Cron"
    /\ ScheduleFromStrOk(ent.schedule.expr)
    /\ Occurs(ent.schedule.expr, entOps.at)
    /\ is_due(entPrev, entOps.at)
    /\ ent.next_trigger # None

\* C8 (as claimed): a due Recurring reminder whose rule cannot be parsed has
\* next_trigger None after the cycle's calculate_next_trigger().
C8_UnparsableLeftUnset ==
    CycleProcessed =>
        \A i \in DueIndices(dcycle.loaded, dcycle.at) :
            (/\ dcycle.loaded[i].schedule.kind = "Cron"
             /\ ~ScheduleFromStrOk(dcycle.loaded[i].schedule.expr))
                => reminders[i].next_trigger = None

LoopPositions ==
    {"load", "read", "process", "save_open", "save_lock", "save_write", "sleep"}

\* C9: a load or save error never ends the daemon loop: the daemon is always
\* at a position of the loop; a cycle whose load failed has dispatched
\* nothing and has not touched the snapshot; after a failed load or save
\* the daemon is at the end of the iteration and the next one can start.
C9_ErrorsNeverEndTheLoop ==
    /\ dpc \in LoopPositions
    /\ dcycle.err = "load" => (dcycle.sent = <<>> /\ ~dcycle.wrote /\ ~updated)
    /\ dcycle.err # "none" => (dpc = "sleep" /\ ENABLED DSleep)

\* a cycle whose load failed on a snapshot that a failed save left behind
C9_Witness ==
    /\ dcycle.err = "load"
    /\ dpc = "sleep"
    /\ file.kind = "partial"

\* C10: a stored reminder that is completed has a OneTime schedule and no
\* next_trigger; a Recurring reminder is never completed.
C10_CompletedIsOneTime ==
    \A r \in Range(file.data) :
        r.completed => (r.schedule.kind = "OneTime" /\ r.next_trigger = None)

\* the store holds a completed reminder, and a cycle that dispatched a
\* recurring reminder has been saved
C10_Witness ==
    /\ dpc = "sleep"
    /\ dcycle.err = "none"
    /\ file = JsonFile(reminders)
    /\ \E i \in DueIndices(dcycle.loaded, dcycle.at) :
          dcycle.loaded[i].schedule.kind = "Cron"
    /\ \E r \in Range(file.data) : r.completed

\* C11: a stored OneTime reminder that is not completed has next_trigger
\* equal to the instant of its schedule (add, edit, pause, resume, delete,
\* clean and daemon cycles).
C11_OneTimeTriggerIsInstant ==
    \A r \in Range(file.data) :
        (r.schedule.kind = "OneTime" /\ ~r.completed)
            => r.next_trigger = Some(r.schedule.at)

\* an edit has turned a stored recurring reminder into a one-time reminder
\* that is not completed
C11_Witness ==
    /\ cmd.op = "edit"
    /\ cpc = "done"
    /\ cobs.res = "ok"
    /\ \E r \in Range(file.data) :
          /\ r.id = cobs.target
          /\ r.schedule.kind = "OneTime"
          /\ ~r.completed
          /\ \E q \in Range(cobs.loaded) : q.id = r.id /\ q.schedule.kind = "Cron"

\* C12: pause() sets paused and changes no other field.
C12_PauseFrame ==
    entOps.last = "pause" => ent = [entPrev EXCEPT !.paused = TRUE]

\* pause() of a reminder that was not paused and has a next trigger
C12_Witness ==
    /\ entOps.last = "pause"
    /\ ~entPrev.paused
    /\ entPrev.next_trigger # None
    /\ ent.paused

\* C13: resume() on a OneTime reminder clears paused and changes nothing
\* else; if its instant has passed and it is not completed it is due at the
\* instant of the resume; a completed one stays completed and not due.
C13_ResumeOneTime ==
    (entOps.last = "resume" /\ ent.schedule.kind = "OneTime") =>
        /\ ent = [entPrev EXCEPT !.paused = FALSE]
        /\ (~entPrev.completed /\ \E n \in entPrev.next_trigger : n <= entOps.at)
              => is_due(ent, entOps.at)
        /\ entPrev.completed => (ent.completed /\ ~is_due(ent, entOps.at))

\* a paused one-time reminder whose instant passed is resumed
C13_Witness ==
    /\ entOps.last = "resume"
    /\ ent.schedule.kind = "OneTime"
    /\ entPrev.paused
    /\ ~entPrev.completed
    /\ \E n \in entPrev.next_trigger : n < entOps.at
    /\ is_due(ent, entOps.at)

\* C14: resume() on a Recurring reminder with a parsable rule clears paused,
\* changes no field but next_trigger, and any next_trigger it sets is an
\* occurrence of the rule strictly after the instant of the resume: the
\* reminder is not due at that instant.
C14_ResumeRecurringSkipsMissed ==
    (/\ entOps.last = "resume"
     /\ ent.schedule.kind = "Cron"
     /\ ScheduleFromStrOk(ent.schedule.expr)) =>
        /\ ent = [entPrev EXCEPT !.paused = FALSE, !.next_trigger = ent.next_trigger]
        /\ \A n \in ent.next_trigger :
              /\ n > entOps.at
              /\ Occurs(ent.schedule.expr, n)
              /\ \A u \in (entOps.at + 1)..(n - 1) : ~Occurs(ent.schedule.expr, u)
        /\ ~is_due(ent, entOps.at)

\* a paused recurring reminder that missed an occurrence is resumed
C14_Witness ==
    /\ entOps.last = "resume"
    /\ ent.schedule.kind = "Cron"
    /\ ScheduleFromStrOk(ent.schedule.expr)
    /\ entPrev.paused
    /\ ~entPrev.completed
    /\ \E n \in entPrev.next_trigger : n <= entOps.at
    /\ ent.next_trigger # None

\* C15: short-ID resolution (find_by_short_id in show, delete_by_short_id in
\* delete) returns not-found when no stored identifier starts with the
\* prefix, the single matching record when exactly one does (delete removes
\* exactly that record), and the ambiguity error with the match count when
\* more than one does, without touching the collection.
C15_ShortIdResolution ==
    stCmd.op \in {"show", "delete"} =>
        LET m == {i \in 1..Len(storePrev) : StartsWith(storePrev[i].id, stCmd.id)}
        IN /\ m = {} => (stRet.res = "notfound" /\ store = storePrev)
           /\ Cardinality(m) = 1 =>
                 \A i \in m :
                    /\ stRet.res = "ok"
                    /\ stRet.id = storePrev[i].id
                    /\ stCmd.op = "show" => store = storePrev
                    /\ stCmd.op = "delete" =>
                          store = SubSeq(storePrev, 1, i - 1)
                                  \o SubSeq(storePrev, i + 1, Len(storePrev))
           /\ Cardinality(m) > 1 =>
                 /\ stRet.res = "ambiguous"
                 /\ stRet.count = Cardinality(m)
                 /\ store = storePrev

\* a prefix shared by two of three stored records
C15_Witness ==
    /\ stCmd.op \in {"show", "delete"}
    /\ Len(storePrev) = 3
    /\ stRet.res = "ambiguous"
    /\ stRet.count = 2

\* C16: a delete or edit whose prefix matches more than one record fails,
\* saves nothing and leaves the persisted collection as it was.
C16_AmbiguousMutatesNothing ==
    (/\ stCmd.op \in {"delete", "edit"}
     /\ Cardinality({i \in 1..Len(storePrev) :
                        StartsWith(storePrev[i].id, stCmd.id)}) > 1) =>
        /\ stRet.exit = "err"
        /\ ~stRet.saved
        /\ store = storePrev

\* an edit carrying a valid new title and schedule, with an ambiguous prefix
C16_Witness ==
    /\ stCmd.op = "edit"
    /\ stCmd.title # None
    /\ stCmd.time = Some("0m")
    /\ stRet.res = "ambiguous"
    /\ stRet.exit = "err"

\* C17 (as claimed): an identifier that matches no record yields a non-fatal
\* not-found result and leaves the persisted collection unchanged, for show,
\* edit, delete, pause, resume and the store's delete / update.
C17_NotFoundIsNonFatal ==
    (\/ /\ stCmd.op \in {"show", "edit", "delete", "pause", "resume"}
        /\ \A r \in Range(storePrev) : ~StartsWith(r.id, stCmd.id)
     \/ /\ stCmd.op \in {"store_delete", "store_update"}
        /\ stCmd.uuid \notin Ids(storePrev)) =>
        /\ stRet.res = "notfound"
        /\ stRet.exit = "ok"
        /\ store = storePrev

\* C18 (as claimed): an add or edit with an unparsable --time or --cron is
\* aborted with an error and the persisted collection is unchanged.
C18_MalformedInputAborts ==
    (/\ stCmd.op \in {"add", "edit"}
     /\ \/ \E x \in stCmd.time : ~parse_time(Text(x), now).ok
        \/ \E x \in stCmd.cron : ~parse_cron(x).ok) =>
        /\ stRet.exit = "err"
        /\ store = storePrev

\* C19: import with overwrite = false keeps every stored record, at its
\* place and in every field, adds no record with a stored identifier, and
\* counts in skipped_count each imported record whose identifier is stored.
C19_ImportSkipsExisting ==
    (stCmd.op = "import" /\ ~stCmd.overwrite) =>
        /\ Len(store) >= Len(storePrev)
        /\ \A i \in 1..Len(storePrev) : store[i] = storePrev[i]
        /\ \A j \in (Len(storePrev) + 1)..Len(store) : store[j].id \notin Ids(storePrev)
        /\ stRet.counts[2] =
              Cardinality({k \in 1..Len(stCmd.file) : stCmd.file[k].id \in Ids(storePrev)})

\* an import without overwrite of a file holding a different record under a
\* stored identifier, and a record with a new identifier
C19_Witness ==
    /\ stCmd.op = "import"
    /\ ~stCmd.overwrite
    /\ stRet.counts[2] > 0
    /\ stRet.counts[1] > 0
    /\ \E k \in 1..Len(stCmd.file) :
          /\ stCmd.file[k].id \in Ids(storePrev)
          /\ stCmd.file[k] \notin Range(storePrev)

\* C20: import with overwrite = true leaves the stored records whose
\* identifier is not in the file unchanged and in order, holds for every
\* identifier of the file a record of the file (exactly one when the
\* identifier was stored), and returns counts that add up to the number of
\* records in the file.
C20_ImportOverwrites ==
    (stCmd.op = "import" /\ stCmd.overwrite) =>
        LET fids == Ids(stCmd.file)
            other(r) == r.id \notin fids
        IN /\ SelectSeq(store, other) = SelectSeq(storePrev, other)
           /\ \A r \in Range(store) : r.id \in fids => r \in Range(stCmd.file)
           /\ \A id \in fids : \E r \in Range(store) : r.id = id
           /\ \A id \in fids \cap Ids(storePrev) :
                 Cardinality({i \in 1..Len(store) : store[i].id = id}) = 1
           /\ stRet.counts[1] + stRet.counts[2] = Len(stCmd.file)

\* an overwriting import of a stored identifier and a new one into a store
\* that holds another record too
C20_Witness ==
    /\ stCmd.op = "import"
    /\ stCmd.overwrite
    /\ Ids(stCmd.file) \cap Ids(storePrev) # {}
    /\ Ids(stCmd.file) \ Ids(storePrev) # {}
    /\ Ids(storePrev) \ Ids(stCmd.file) # {}
    /\ stRet.res = "ok"

\* C21: clean_completed() removes exactly the completed records, keeps the
\* others unchanged and in their order, returns the number removed, and
\* saves once when that number is positive and not at all when it is zero.
C21_CleanRemovesExactlyCompleted ==
    stCmd.op = "clean" =>
        LET done == {i \in 1..Len(storePrev) : storePrev[i].completed}
            kept == (1..Len(storePrev)) \ done
        IN /\ stRet.res = "ok"
           /\ Len(store) = Cardinality(kept)
           /\ \A i \in kept :
                 store[Cardinality({j \in kept : j <= i})] = storePrev[i]
           /\ stRet.count = Cardinality(done)
           /\ stRet.saved <=> Cardinality(done) > 0

\* a clean of three records of which the middle one is completed
C21_Witness ==
    /\ stCmd.op = "clean"
    /\ Len(storePrev) = 3
    /\ ~storePrev[1].completed
    /\ storePrev[2].completed
    /\ storePrev[3].paused
    /\ stRet.count = 1
    /\ stRet.saved
    /\ store = <<storePrev[1], storePrev[3]>>

\* C22: load() returns an empty collection without error when the snapshot
\* file is missing, empty or whitespace only, returns an error when the
\* content is malformed, returns the stored collection otherwise, and leaves
\* the snapshot as it was.
C22_LoadOutcomes ==
    stCmd.op = "load" =>
        /\ file = stCmd.snapshot
        /\ file.kind = "missing" => stRet.res = "ok" /\ store = <<>>
        /\ (file.kind \in {"empty", "blank"} /\ stCmd.io = "ok") =>
              stRet.res = "ok" /\ store = <<>>
        /\ file.kind = "partial" => stRet.res \in {"parse", "io"}
        /\ (file.kind = "partial" /\ stCmd.io = "ok") => stRet.res = "parse"
        /\ (file.kind = "json" /\ stCmd.io = "ok") =>
              stRet.res = "ok" /\ store = file.data

\* a whitespace-only snapshot has been loaded as the empty collection
C22_Witness ==
    /\ stCmd.op = "load"
    /\ stCmd.io = "ok"
    /\ file = BlankFile
    /\ stRet.res = "ok"
    /\ store = <<>>

C24_NonPositiveAmountRejected ==
    (/\ prIn.fn = "parse_time"
     /\ \/ \E u \in {"m", "h", "d", "w"} : prIn.text = <<Digits(<<0>>), Letters(u)>>
        \/ prIn.text = <<Punct("-"), Digits(<<5>>), Letters("m")>>
        \/ prIn.text = <<Digits(<<1>>), Punct("."), Digits(<<5>>), Letters("h")>>) =>
        ~prOut.ok

\* C25: for a relative offset <n><unit>, parse_time returns now + n * unit,
\* and the one-time reminder built from it has that instant as its
\* next_trigger and is neither completed nor paused.
C25_RelativeOffsetIsAdded ==
    \A a \in Amounts, u \in {"m", "h", "d", "w"} :
        (prIn.fn = "parse_time" /\ prIn.text = <<Digits(a), Letters(u)>>) =>
            LET unit == CASE u = "m" -> 1 [] u = "h" -> 60 [] u = "d" -> 1440
                          [] u = "w" -> 10080
            IN /\ prOut.ok
               /\ Len(a) <= 5 => prOut.v = now + Val(a) * unit
               /\ entOps.last = "new_one_time" =>
                     /\ ent.next_trigger = Some(prOut.v)
                     /\ ~ent.completed
                     /\ ~ent.paused

\* C26: at every current date and for every target weekday, the bare
\* weekday and "next <weekday>" resolve to the one date d with
\* today < d <= today + 7 that falls on the target weekday.
C26_NextWeekdayIsAfterToday ==
    LET names == <<"monday", "tuesday", "wednesday", "thursday", "friday",
                   "saturday", "sunday">>
    IN \A i \in 1..7 :
          (/\ prIn.fn = "parse_time"
           /\ prIn.text \in {<<Letters(names[i])>>,
                              <<Letters("next"), Space(" "), Letters(names[i])>>}) =>
              /\ prOut.ok
              /\ LET today == now \div 1440
                     d == prOut.v \div 1440
                 IN today < d /\ d <= today + 7 /\ d % 7 = i - 1

\* C27: at every current date and for every target weekday,
\* "this <weekday>", followed by a time of day or not, resolves to the date
\* of that weekday in the Monday-to-Sunday week that contains today.
C27_ThisWeekdayIsInCurrentWeek ==
    LET names == <<"monday", "tuesday", "wednesday", "thursday", "friday",
                   "saturday", "sunday">>
        nine == <<Space(" "), Digits(<<9>>), Punct(":"), Digits(<<0, 0>>)>>
    IN \A i \in 1..7 :
          (/\ prIn.fn = "parse_time"
           /\ prIn.text \in
                  {<<Letters("this"), Space(" "), Letters(names[i])>>,
                   <<Letters("this"), Space(" "), Letters(names[i])>> \o nine}) =>
              /\ prOut.ok
              /\ LET today == now \div 1440
                 IN prOut.v \div 1440 = today - (today % 7) + (i - 1)

\* C28: a date reference without a time of day resolves to 09:00 on the
\* resolved date, the result of the same reference followed by "9:00".
C28_DefaultTimeIsNine ==
    \A d \in DateRefs :
        (prIn.fn = "parse_time" /\ prIn.text = d) =>
            /\ prOut.ok
            /\ prOut.v % 1440 = 540
            /\ prOut = parse_time(d \o <<Space(" "), Digits(<<9>>), Punct(":"),
                                          Digits(<<0, 0>>)>>, now)

\* C29: parse_cron returns a valid cron expression as it is (surrounding
\* whitespace apart), from its first branch: the translator is not called.
C29_ValidCronPassesThrough ==
    prIn.fn = "parse_cron" =>
        /\ ScheduleFromStrOk(prIn.text) => prOut = CronOk(prIn.text, "cron")
        /\ ScheduleFromStrOk(CronTrim(prIn.text)) =>
              prOut = CronOk(CronTrim(prIn.text), "cron")

\* a valid expression has been returned unchanged by the first branch
C29_Witness ==
    /\ prIn.fn = "parse_cron"
    /\ prIn.text = "*/2"
    /\ prOut.ok
    /\ prOut.v = "*/2"
    /\ prOut.via = "cron"

\* C30: every successful result of parse_cron is accepted by the validator
\* and comes back unchanged when fed to parse_cron again; a translation
\* that fails validation gives a failure other than the one for an input
\* that is neither a cron expression nor a recognized phrase.
C30_OutputIsValidCron ==
    prIn.fn = "parse_cron" =>
        /\ prOut.ok =>
              /\ ScheduleFromStrOk(prOut.v)
              /\ parse_cron(prOut.v).ok
              /\ parse_cron(prOut.v).v = prOut.v
        /\ LET s == CronTrim(prIn.text)
               e == EnglishToCron(s)
           IN /\ (~ScheduleFromStrOk(s) /\ e.ok /\ ~ScheduleFromStrOk(e.v)) =>
                    ~prOut.ok /\ prOut.err = "generated_invalid"
              /\ (~ScheduleFromStrOk(s) /\ ~e.ok) =>
                    ~prOut.ok /\ prOut.err = "invalid"

\* an English phrase has been translated into a valid expression
C30_Witness ==
    /\ prIn.fn = "parse_cron"
    /\ prIn.text = "every 2 minutes "
    /\ prOut.ok
    /\ prOut.v = "*/2"
    /\ prOut.via = "english"


\* C31: a daemon cycle saves the collection if and only if at least one
\* reminder was due in it: the daemon is at a position of save(), or has
\* opened the snapshot for writing, only in a cycle with a due reminder; a
\* cycle that ended without a load error and with a due reminder has opened
\* the snapshot for writing or has logged the error of that open; a cycle
\* with nothing due ends with `updated` false and nothing written.
C31_SavesIffSomethingDue ==
    LET due == DueIndices(dcycle.loaded, dcycle.at)
    IN /\ (dpc \in {"save_open", "save_lock", "save_write"} \/ dcycle.wrote)
            => due # {}
       /\ (dpc = "sleep" /\ dcycle.err = "none" /\ due # {}) => dcycle.wrote
       /\ (dpc = "sleep" /\ dcycle.err = "none" /\ due = {})
            => (~updated /\ ~dcycle.wrote)

\* a cycle that loaded a stored reminder, found nothing due and went to
\* sleep without opening the snapshot
C31_Witness ==
    /\ dpc = "sleep"
    /\ dcycle.err = "none"
    /\ Len(dcycle.loaded) > 0
    /\ DueIndices(dcycle.loaded, dcycle.at) = {}
    /\ ~dcycle.wrote
    /\ file = JsonFile(dcycle.loaded)


\* C32: the time of day over all hours 0..99 and minutes 0..99: with am,
\* hour 12 becomes 0 and other hours are kept; with pm, hour 12 stays 12 and
\* other hours have 12 added; with no suffix the hour is kept; the time is
\* accepted exactly when the converted hour is at most 23 and the minute at
\* most 59, and is then that hour and minute of the day; it fails otherwise.
C32_TimeOfDayConversion ==
    prIn.fn = "time_of_day" =>
        LET hour == IF prIn.ampm = "am"
                    THEN (IF prIn.hour = 12 THEN 0 ELSE prIn.hour)
                    ELSE IF prIn.ampm = "pm"
                    THEN (IF prIn.hour = 12 THEN 12 ELSE prIn.hour + 12)
                    ELSE prIn.hour
        IN IF hour <= 23 /\ prIn.minute <= 59
           THEN prOut = TimeOk((now \div MinutesPerDay) * MinutesPerDay
                               + hour * 60 + prIn.minute)
           ELSE ~prOut.ok

\* 12:30am is accepted as 00:30, and 13pm has been rejected
C32_Witness ==
    /\ prIn.fn = "time_of_day"
    /\ prIn.hour = 12
    /\ prIn.minute = 30
    /\ prIn.ampm = "am"
    /\ prOut.ok
    /\ prOut.v % MinutesPerDay = 30
    /\ ~parse_time(<<Letters("today"), Space(" "), Digits(<<1, 3>>),
                     Letters("pm")>>, now).ok


\* C37: a daemon cycle never adds or removes a record relative to the
\* collection it loaded and never changes a reminder's id, title, schedule
\* or paused flag; it changes only next_trigger and completed, and only on
\* reminders that were due in that cycle.  Stated of the collection the
\* cycle holds once its loop has run, which is the one it saves.
C37_CycleChangesOnlyDueTriggers ==
    (dpc \in {"save_open", "save_lock", "save_write"}
     \/ (dpc = "sleep" /\ dcycle.err # "load")) =>
        /\ Len(reminders) = Len(dcycle.loaded)
        /\ \A i \in 1..Len(dcycle.loaded) :
              /\ reminders[i].id = dcycle.loaded[i].id
              /\ reminders[i].title = dcycle.loaded[i].title
              /\ reminders[i].schedule = dcycle.loaded[i].schedule
              /\ reminders[i].paused = dcycle.loaded[i].paused
              /\ i \notin DueIndices(dcycle.loaded, dcycle.at)
                    => reminders[i] = dcycle.loaded[i]

\* a cycle that loaded two reminders, one due and one not, has run its loop:
\* the due one has changed, the other has not
C37_Witness ==
    /\ CycleProcessed
    /\ Len(dcycle.loaded) = 2
    /\ \E i, j \in 1..2 :
          /\ i \in DueIndices(dcycle.loaded, dcycle.at)
          /\ j \notin DueIndices(dcycle.loaded, dcycle.at)
          /\ reminders[i] # dcycle.loaded[i]
          /\ reminders[j] = dcycle.loaded[j]


\* C36 (as claimed): identifiers in the persisted collection are pairwise
\* distinct after any command, import of a file that holds several records
\* with the same identifier included, when they were distinct before it.
C36_IdsStayDistinct ==
    (\A i, j \in 1..Len(storePrev) : storePrev[i].id = storePrev[j].id => i = j)
        => \A i, j \in 1..Len(store) : store[i].id = store[j].id => i = j


\* C34 (as claimed): once a pause command has returned successfully, and
\* until the next command is issued, the stored paused flag of that reminder
\* stays true and no daemon cycle dispatches it, also when the cycle loaded
\* the collection before the pause was saved.
C34_PauseSurvivesTheDaemon ==
    /\ []((cpc = "done" /\ cmd.op = "pause" /\ cobs.res = "ok") =>
             \A r \in Range(file.data) : r.id \in Touched(cmd, cobs) => r.paused)
    /\ [][(cpc = "done" /\ cmd.op = "pause" /\ cobs.res = "ok" /\ dpc = "process")
             => \A k \in 1..Len(dcycle'.sent) :
                   dcycle'.sent[k].id \notin Touched(cmd, cobs)]_vars


\* C35 (as claimed): once a delete command has returned success, and until
\* the next command is issued, the deleted reminder is not in the persisted
\* collection (so that no later daemon cycle can load and dispatch it), also
\* when a daemon cycle loaded the collection before the delete was saved.
C35_DeleteSurvivesTheDaemon ==
    (cpc = "done" /\ cmd.op = "delete" /\ cobs.res = "ok") =>
        \A r \in Range(file.data) : r.id \notin Touched(cmd, cobs)


\* C33 (as claimed): a one-time reminder whose add command has returned
\* successfully and whose next_trigger has passed, in a run where no reminder
\* is ever paused, edited or deleted, is eventually dispatched by the daemon:
\* a cycle finds it due in the collection it loaded (and its dispatch is
\* then on record once that cycle has saved).
C33_AddedIsEventuallyDispatched ==
    \A n \in 0..(MaxCmds - 1) :
        (/\ cpc = "done" /\ cmd.op = "add" /\ cobs.res = "ok"
         /\ \E r \in cobs.rem :
               /\ r.id = NewId(n)
               /\ r.schedule.kind = "OneTime"
               /\ \E t \in r.next_trigger : t <= now)
        ~> (\/ NewId(n) \in fired
            \/ /\ dpc \in {"save_open", "save_lock", "save_write", "sleep"}
               /\ \E i \in DueIndices(dcycle.loaded, dcycle.at) :
                     dcycle.loaded[i].id = NewId(n))

=============================================================================
